---- MODULE Spec2Model ----
(***************************************************************************)
(* Model of the agent execution engine of internal/llm/agent: the Run     *)
(* coordinator (Run, Cancel, IsSessionBusy), the conversation loop        *)
(* (processGeneration), the stream event processor (processEvent), the    *)
(* tool dispatcher (streamAndHandleEvents), the usage accountant          *)
(* (TrackUsage) and the summarization task (Summarize).                   *)
(*                                                                         *)
(* Every goroutine is a process with a program counter.  A step is one    *)
(* access to shared state (the activeRequests sync.Map, a context, the    *)
(* message/session store, the event channel) together with the local      *)
(* computation that follows it.                                            *)
(***************************************************************************)
EXTENDS Integers, Sequences, FiniteSets, TLC

\* ------------------------------------------------------------------ bounds
Sessions == {"s1", "s2"}
\* concurrent Run, Cancel and Summarize calls (Spec)
MaxOps == 3           \* Run, Summarize and Cancel calls made in one behaviour
MaxRuns == 2          \* Run calls among them
MaxSums == 2          \* Summarize calls among them
\* one Run followed through its streams and dispatch rounds (SpecLoop)
LoopEvents == 2       \* provider events received by the Run
LoopCalls == 3        \* tool calls announced to the Run
LoopFaults == 1       \* store failures it meets
LoopOps == 2          \* the Run call and the Cancel calls made in one behaviour
\* Update calls among Run, Cancel and Summarize calls (SpecUpdate)
UpdateOps == 3        \* Run, Summarize, Cancel and Update calls made in one behaviour
MaxUpdates == 1       \* Update calls among them
\* one Run and the title task it starts (SpecTitle)
TitleEvents == 1      \* provider events received by the Run
TitleCalls == 1       \* tool calls announced to the Run
TitleFaults == 1      \* store failures it meets
TitleOps == 2         \* the Run call and the Cancel calls made in one behaviour

RunIds == 1..MaxRuns
UpdateIds == 1..MaxUpdates
SumIds == 1..MaxSums

\* ------------------------------------------------------- program constants
ErrRequestCancelled == "request cancelled by user"
ErrSessionBusy == "session is currently processing another request"
ContextCanceled == "context canceled"
ErrorPermissionDenied == "permission denied"
StoreError == "store error"
StreamError == "stream error"

AgentEventTypeError == "error"
AgentEventTypeResponse == "response"
AgentEventTypeSummarize == "summarize"

FinishReasonEndTurn == "end_turn"
FinishReasonToolUse == "tool_use"
FinishReasonCanceled == "canceled"
FinishReasonPermissionDenied == "permission_denied"
NoFinish == ""

User == "user"
Assistant == "assistant"
Tool == "tool"

\* the statically supplied capability set a.tools, and the names a model may ask for
Tools == {"view"}
ToolNames == {"view", "nope"}

\* ---------------------------------------------------------------- float64
\* The costs are float64 values, with the rounding of each operation
\* (round to nearest, ties to even).
\* Natural numbers of any size: the sequence of their digits in base Base,
\* lowest digit first, without leading zero digits (zero is <<>>).
Base == 1024
BaseBits == 10

RECURSIVE Pow2(_)
Pow2(n) == IF n = 0 THEN 1 ELSE 2 * Pow2(n - 1)

RECURSIVE BTrim(_)
BTrim(a) == IF a # <<>> /\ a[Len(a)] = 0 THEN BTrim(SubSeq(a, 1, Len(a) - 1)) ELSE a

RECURSIVE BFromInt(_)
BFromInt(n) == IF n = 0 THEN <<>> ELSE <<n % Base>> \o BFromInt(n \div Base)

RECURSIVE BAddC(_, _, _)
BAddC(a, b, c) ==
  IF a = <<>> /\ b = <<>> THEN (IF c = 0 THEN <<>> ELSE <<c>>)
  ELSE LET x == IF a = <<>> THEN 0 ELSE Head(a)
           y == IF b = <<>> THEN 0 ELSE Head(b)
           s == x + y + c
       IN <<s % Base>> \o BAddC(IF a = <<>> THEN a ELSE Tail(a),
                                IF b = <<>> THEN b ELSE Tail(b), s \div Base)

BAdd(a, b) == BAddC(a, b, 0)

\* a * k for an integer 0 <= k < 2^20
RECURSIVE BMulSmallC(_, _, _)
BMulSmallC(a, k, c) ==
  IF a = <<>> THEN BFromInt(c)
  ELSE LET s == Head(a) * k + c
       IN <<s % Base>> \o BMulSmallC(Tail(a), k, s \div Base)

BMulSmall(a, k) == BTrim(BMulSmallC(a, k, 0))

RECURSIVE BMul(_, _)
BMul(a, b) ==
  IF b = <<>> \/ a = <<>> THEN <<>>
  ELSE BAdd(BMulSmall(a, Head(b)),
            LET rest == BMul(a, Tail(b)) IN IF rest = <<>> THEN <<>> ELSE <<0>> \o rest)

\* quotient and remainder of a by an integer 1 <= d <= 2^20
RECURSIVE BDivSmall(_, _)
BDivSmall(a, d) ==
  IF a = <<>> THEN [q |-> <<>>, r |-> 0]
  ELSE LET hi == BDivSmall(Tail(a), d)
           cur == hi.r * Base + Head(a)
       IN [q |-> BTrim(<<cur \div d>> \o hi.q), r |-> cur % d]

RECURSIVE IntBits(_)
IntBits(n) == IF n = 0 THEN 0 ELSE 1 + IntBits(n \div 2)

BBits(a) == IF a = <<>> THEN 0 ELSE (Len(a) - 1) * BaseBits + IntBits(a[Len(a)])

BShiftLeft(a, s) ==
  IF a = <<>> THEN a
  ELSE [i \in 1..(s \div BaseBits) |-> 0] \o BMulSmall(a, Pow2(s % BaseBits))

\* a shifted right by s bits, and whether a nonzero bit was shifted out
BShiftRight(a, s) ==
  LET drop == IF s \div BaseBits > Len(a) THEN Len(a) ELSE s \div BaseBits
      low == \E i \in 1..drop : a[i] # 0
      d == BDivSmall(SubSeq(a, drop + 1, Len(a)), Pow2(s % BaseBits))
  IN [q |-> d.q, sticky |-> low \/ d.r # 0]

BOdd(a) == a # <<>> /\ a[1] % 2 = 1

\* A float64 that is zero or a positive normal number: m * 2^e with a
\* mantissa m of exactly 53 bits (zero: m = <<>>, e = 0).
MantBits == 53
FZero == [m |-> <<>>, e |-> 0]

\* round-to-nearest-even of (m + f) * 2^e, where 0 <= f < 1 and sticky <=> f > 0;
\* with sticky, m has at least MantBits + 2 bits
FRound(m, e, sticky) ==
  IF m = <<>> THEN FZero
  ELSE LET n == BBits(m) IN
    IF n <= MantBits THEN [m |-> BShiftLeft(m, MantBits - n), e |-> e - (MantBits - n)]
    ELSE LET s == n - MantBits
             g == BShiftRight(m, s - 1)
             guard == BOdd(g.q)
             t == BShiftRight(g.q, 1).q
             up == guard /\ (g.sticky \/ sticky \/ BOdd(t))
             u == IF up THEN BAdd(t, <<1>>) ELSE t
         IN IF BBits(u) > MantBits
              THEN [m |-> BShiftRight(u, 1).q, e |-> e + s + 1]
              ELSE [m |-> u, e |-> e + s]

\* float64(n) of an integer 0 <= n < 2^31
FFromInt(n) == FRound(BFromInt(n), 0, FALSE)

\* x * y
FMul(x, y) == FRound(BMul(x.m, y.m), x.e + y.e, FALSE)

\* the exact sum of x and y as m * 2^e
FSumExact(x, y) ==
  IF x.m = <<>> THEN y
  ELSE IF y.m = <<>> THEN x
  ELSE LET e == IF x.e < y.e THEN x.e ELSE y.e
       IN [m |-> BAdd(BShiftLeft(x.m, x.e - e), BShiftLeft(y.m, y.e - e)), e |-> e]

\* x + y
FAdd(x, y) == LET s == FSumExact(x, y) IN FRound(s.m, s.e, FALSE)

\* x / d for an integer 1 <= d <= 2^20 (x / 1e6 with the constant 1e6); the
\* quotient is computed with DivGuardBits more bits than x has
DivGuardBits == 30
FDivInt(x, d) ==
  LET q == BDivSmall(BShiftLeft(x.m, DivGuardBits), d)
  IN FRound(q.q, x.e - DivGuardBits, q.r # 0)

\* prices of the active model, per one million tokens
Million == 1000000
Model == [CostPer1MIn |-> FFromInt(1), CostPer1MOut |-> FFromInt(2),
          CostPer1MInCached |-> FFromInt(3), CostPer1MOutCached |-> FFromInt(4)]
Usages == {[InputTokens |-> 100, OutputTokens |-> 50,
            CacheCreationTokens |-> 0, CacheReadTokens |-> 0],
           [InputTokens |-> 7, OutputTokens |-> 5,
            CacheCreationTokens |-> 3, CacheReadTokens |-> 2]}

\* ---------------------------------------------------------------- registry
PlainKey(s) == s
SummarizeKey(s) == s \o "-summarize"
Keys == {PlainKey(s) : s \in Sessions} \cup {SummarizeKey(s) : s \in Sessions}

NoHandle == <<"none", 0>>
RunHandle(r) == <<"run", r>>
SumHandle(t) == <<"summarize", t>>
Handles == {RunHandle(r) : r \in RunIds} \cup {SumHandle(t) : t \in SumIds}

VARIABLES
  activeRequests,     \* agent.activeRequests: key -> cancellation handle
  ctxDone,            \* handles whose context has been cancelled
  runs,               \* one record per Run call: caller and execution unit
  sums,               \* one record per Summarize call: caller and task
  msgs,               \* message store, in creation order; the id is the index
  sessions,           \* session store
  eventsLeft,         \* provider events the behaviour may still receive
  callsLeft,          \* tool calls the behaviour may still announce
  faultsLeft,         \* store failures the behaviour may still meet
  opsLeft,            \* Run, Summarize and Cancel calls the behaviour may still make
  cancelInvocations,  \* handle -> times Cancel invoked it
  provider,           \* agent.provider: the model of the backend provider
  updates,            \* one record per Update call
  behavioralFramework, \* agent.behavioralFramework: the prompt-augmentation collaborator
  attachmentsLeft,    \* attachments the behaviour may still pass to Run
  tracker,            \* behavioralFramework.performanceTracker
  monitor,            \* behavioralFramework.performanceMonitor
  classify            \* a content and the problem types ClassifyProblem returned for it

vars == <<activeRequests, ctxDone, runs, sums, msgs, sessions,
          eventsLeft, callsLeft, faultsLeft, opsLeft, cancelInvocations,
          provider, updates, behavioralFramework, attachmentsLeft, tracker, monitor, classify>>

\* ---------------------------------------------------------------- messages
ZeroResult(id) == [id |-> id, content |-> "", isError |-> FALSE]

NewMessage(s, role) ==
  [sid |-> s, role |-> role, content |-> 0, reasoning |-> 0, attachments |-> 0,
   calls |-> <<>>, finish |-> NoFinish, results |-> <<>>]

NoMessage == NewMessage("", "")

\* message.AddFinish: the message carries the given finish reason afterwards
AddFinish(m, reason) == [m EXCEPT !.finish = reason]

\* messages.List(sessionID): ids of the session's messages in creation order
List(s) == SelectSeq([i \in 1..Len(msgs) |-> i], LAMBDA i : msgs[i].sid = s)

\* errors.Is over a %w chain, modelled as the sequence of wrapped errors
ErrorsIs(err, target) == \E i \in 1..Len(err) : err[i] = target

NoEvent == [type |-> "", err |-> <<>>, msgId |-> 0, finish |-> NoFinish, done |-> FALSE]

\* agent.err
AgentErr(err) == [NoEvent EXCEPT !.type = AgentEventTypeError, !.err = err]

NoUsage == [InputTokens |-> 0, OutputTokens |-> 0,
            CacheCreationTokens |-> 0, CacheReadTokens |-> 0]

\* ------------------------------------------------------------------- state
NewSession == [Title |-> "", Cost |-> FZero, PromptTokens |-> 0, CompletionTokens |-> 0,
               SummaryMessageID |-> 0]

\* the models a provider can be created for; the agent starts with the first
Models == {"model-a", "model-b"}
InitialModel == "model-a"

FreeUpdate == [pc |-> "free", modelID |-> "", returned |-> ""]

\* behavioral.NewBehavioralFramework: the framework holds its configuration
NewBehavioralFramework(enabled, track) ==
  [Enabled |-> enabled, EnablePerformanceTrack |-> enabled /\ track]

\* behavioral.EnhancementType: the enhancements the selector chooses among
Enhancements == {"StandardProcessing", "ReflexionEnhancement"}

\* behavioral.NewPerformanceTracker: no metrics; writers are the execution
\* units inside RecordProcessing
NewPerformanceTracker == [metrics |-> <<>>, writers |-> {}]

\* behavioral.NewPerformanceMonitor: no sessions, zero global metrics, the
\* mutex free (0) or held for writing by an execution unit
NewPerformanceMonitor ==
  [sessions |-> <<>>,
   globalMetrics |-> [TotalRequests |-> 0, TotalSessions |-> 0,
                      EnhancementUsage |-> [e \in Enhancements |-> 0]],
   mutex |-> 0]

\* no call of ClassifyProblem has been made
NoClassification == [content |-> <<>>, results |-> <<>>]

\* no entry of a run's msgHistory is rewritten
NoEnhancement == [index |-> 0, prompt |-> "", attachments |-> 0]

FreeRun ==
  [session |-> "", pc |-> "free", history |-> <<>>, asst |-> NoMessage,
   asstId |-> 0, provEnded |-> FALSE, idx |-> 0, results |-> <<>>,
   result |-> NoEvent, returned |-> "", streams |-> 0,
   pub |-> <<>>, delivered |-> <<>>, closed |-> FALSE,
   unregistered |-> FALSE, cancelCalled |-> FALSE,
   deniedAt |-> 0, resolved |-> <<>>, executed |-> <<>>, recorded |-> <<>>,
   cancelSeen |-> "", cancelPc |-> "", usage |-> NoUsage, costBefore |-> FZero,
   failed |-> {}, event |-> "", completes |-> 0, accounted |-> 0, events |-> <<>>,
   marker |-> 0, listed |-> <<>>, sent |-> <<>>, title |-> "", titleSession |-> NewSession,
   enhanced |-> NoEnhancement, expired |-> FALSE, attachments |-> 0,
   enhancement |-> "", raced |-> FALSE]

FreeSum ==
  [session |-> "", pc |-> "free", returned |-> "", pub |-> <<>>, usage |-> NoUsage,
   oldSession |-> NewSession, msgId |-> 0]

Init ==
  /\ activeRequests = [k \in Keys |-> NoHandle]
  /\ ctxDone = {}
  /\ runs = [r \in RunIds |-> FreeRun]
  /\ sums = [t \in SumIds |-> FreeSum]
  /\ msgs = <<>>
  /\ sessions = [s \in Sessions |-> NewSession]
  /\ eventsLeft = 0
  /\ callsLeft = 0
  /\ faultsLeft = 0
  /\ opsLeft = MaxOps
  /\ cancelInvocations = [h \in Handles |-> 0]
  /\ provider = InitialModel
  /\ updates = [u \in UpdateIds |-> [FreeUpdate EXCEPT !.pc = "unused"]]
  /\ behavioralFramework = NewBehavioralFramework(FALSE, FALSE)
  /\ attachmentsLeft = 0
  /\ tracker = NewPerformanceTracker
  /\ monitor = NewPerformanceMonitor
  /\ classify = NoClassification

\* IsSessionBusy looking up the summarize key instead of the plain key
IsSessionBusyWrongKey(sessionID) == activeRequests[SummarizeKey(sessionID)] # NoHandle

\* agent.IsSessionBusy
IsSessionBusy(sessionID) == activeRequests[PlainKey(sessionID)] # NoHandle

\* context of a Run's execution unit: genCtx of Run r
CtxDone(r) == RunHandle(r) \in ctxDone

\* the next Run / Summarize call is made with the lowest unused record
NextFree(recs, ids) == CHOOSE r \in ids : recs[r].pc = "free" /\ \A q \in ids : q < r => recs[q].pc # "free"

\* ------------------------------------------------------------- Run (caller)
\* Run, lines 695-701: the attachments of the call (those left for a model
\* that supports them), then the busy check; a busy session returns ErrSessionBusy
RunCheck(s) ==
  /\ opsLeft > 0
  /\ opsLeft' = opsLeft - 1
  /\ \E r \in RunIds : runs[r].pc = "free"
  /\ \E attachments \in 0..attachmentsLeft :
       /\ attachmentsLeft' = attachmentsLeft - attachments
       /\ LET r == NextFree(runs, RunIds) IN
            runs' = IF IsSessionBusy(s)
                      THEN [runs EXCEPT ![r].session = s, ![r].pc = "rejected",
                                        ![r].returned = ErrSessionBusy]
                      ELSE [runs EXCEPT ![r].session = s, ![r].pc = "admitted",
                                        ![r].attachments = attachments]
  /\ UNCHANGED <<activeRequests, ctxDone, sums, msgs, sessions,
                 eventsLeft, callsLeft, faultsLeft, cancelInvocations, provider, updates, behavioralFramework,
                 tracker, monitor, classify>>

\* Run, lines 703-706: derive genCtx, store its cancel under the plain key, start the unit
RunStore(r) ==
  /\ runs[r].pc = "admitted"
  /\ activeRequests' = [activeRequests EXCEPT ![PlainKey(runs[r].session)] = RunHandle(r)]
  /\ runs' = [runs EXCEPT ![r].pc = "gen"]
  /\ UNCHANGED <<ctxDone, sums, msgs, sessions,
                 eventsLeft, callsLeft, faultsLeft, opsLeft, cancelInvocations, provider, updates, behavioralFramework, attachmentsLeft, tracker, monitor, classify>>

\* ------------------------------------------------------- conversation loop
\* the listed messages as they enter the history: id and role
Entries(ids) == [i \in 1..Len(ids) |-> [id |-> ids[i], role |-> msgs[ids[i]].role]]

\* Truncate without the cut: the whole listing is kept
TruncateKeepsAll(entries, summaryId) == entries

\* processGeneration, lines 752-764: history starts at the summary message, re-tagged user
Truncate(entries, summaryId) ==
  LET found == {i \in 1..Len(entries) : entries[i].id = summaryId}
  IN IF summaryId # 0 /\ found # {}
       THEN LET k == CHOOSE i \in found : \A j \in found : i <= j
                cut == SubSeq(entries, k, Len(entries))
            IN [cut EXCEPT ![1].role = User]
       ELSE entries

\* processGeneration, lines 729-747: list the messages of the session; on an
\* empty list the title task is started
ProcList(r) ==
  /\ runs[r].pc = "gen"
  /\ \E fault \in {"none", "list"} :
       /\ fault # "none" => faultsLeft > 0
       /\ faultsLeft' = IF fault = "none" THEN faultsLeft ELSE faultsLeft - 1
       /\ runs' = IF fault = "none"
                    THEN LET ids == List(runs[r].session) IN
                         [runs EXCEPT ![r].history = Entries(ids),
                                      ![r].listed = ids,
                                      ![r].title = IF Len(ids) = 0 THEN "get" ELSE @,
                                      ![r].pc = "session"]
                    ELSE [runs EXCEPT
                           ![r].result = AgentErr(<<"failed to list messages", StoreError>>),
                           ![r].pc = "delete"]
  /\ UNCHANGED <<activeRequests, ctxDone, sums, msgs, sessions,
                 eventsLeft, callsLeft, opsLeft, cancelInvocations, provider, updates, behavioralFramework, attachmentsLeft, tracker, monitor, classify>>

\* processGeneration, lines 748-764: get the session, truncate at its summary marker
ProcGet(r) ==
  /\ runs[r].pc = "session"
  /\ \E fault \in {"none", "get"} :
       /\ fault # "none" => faultsLeft > 0
       /\ faultsLeft' = IF fault = "none" THEN faultsLeft ELSE faultsLeft - 1
       /\ runs' = IF fault = "none"
                    THEN LET marker == sessions[runs[r].session].SummaryMessageID IN
                         [runs EXCEPT ![r].history = Truncate(@, marker),
                                      ![r].marker = marker,
                                      ![r].pc = "user"]
                    ELSE [runs EXCEPT
                           ![r].result = AgentErr(<<"failed to get session", StoreError>>),
                           ![r].pc = "delete"]
  /\ UNCHANGED <<activeRequests, ctxDone, sums, msgs, sessions,
                 eventsLeft, callsLeft, opsLeft, cancelInvocations, provider, updates, behavioralFramework, attachmentsLeft, tracker, monitor, classify>>

\* agent.createUserMessage: the text of the request, then the attachments of the call
CreateUserMessage(s, attachments) ==
  [NewMessage(s, User) EXCEPT !.content = 1, !.attachments = attachments]

\* processGeneration, lines 766-771: create the user message, append it to the history
ProcCreate(r) ==
  /\ runs[r].pc = "user"
  /\ \E fault \in {"none", "create"} :
       /\ fault # "none" => faultsLeft > 0
       /\ faultsLeft' = IF fault = "none" THEN faultsLeft ELSE faultsLeft - 1
       /\ IF fault = "none"
            THEN /\ msgs' = Append(msgs, CreateUserMessage(runs[r].session, runs[r].attachments))
                 /\ runs' = [runs EXCEPT
                      ![r].history = Append(@, [id |-> Len(msgs) + 1, role |-> User]),
                      ![r].pc = "augment"]
            ELSE /\ msgs' = msgs
                 /\ runs' = [runs EXCEPT
                      ![r].result = AgentErr(<<"failed to create user message", StoreError>>),
                      ![r].pc = "delete"]
  /\ UNCHANGED <<activeRequests, ctxDone, sums, sessions,
                 eventsLeft, callsLeft, opsLeft, cancelInvocations, provider, updates, behavioralFramework, attachmentsLeft, tracker, monitor, classify>>

\* ------------------------------------------------------ prompt augmentation
\* a.behavioralFramework == nil, line 784
NilFramework == [nil |-> TRUE]

\* the directives of a selected enhancement, and those of the agent's fallback
SelectedDirectives == "selected"
FallbackDirectives == "fallback"

\* behavioral.fallbackToStandard: a standard result without directives, no error
FallbackToStandard ==
  [result |-> [BehavioralPrompt |-> "", Fallback |-> TRUE], err |-> FALSE]

\* behavioral.ProcessRequest: a disabled framework answers with the standard
\* result; an enabled one analyses the request, selects an enhancement and
\* applies it. analyzeRequest and applyEnhancement return a nil error on every
\* path, and neither reads ctx: the result is the same whether or not the
\* deadline of ctx has passed.
ProcessRequest(bf, ctxExpired) ==
  IF ~bf.Enabled
    THEN [result |-> [BehavioralPrompt |-> "", Fallback |-> FALSE], err |-> FALSE]
    ELSE LET analysisErr == FALSE
             applied == [result |-> [BehavioralPrompt |-> SelectedDirectives,
                                     Fallback |-> FALSE],
                         err |-> FALSE]
         IN  IF analysisErr THEN FallbackToStandard
             ELSE IF applied.err THEN FallbackToStandard
             ELSE applied

\* agent.createFallbackBehavioralResult
CreateFallbackBehavioralResult ==
  [BehavioralPrompt |-> FallbackDirectives, Fallback |-> TRUE]

\* agent.injectBehavioralDirectives: the last user message of the history is
\* rewritten in a copy of the history; its parts become one text that wraps the
\* original text in the directives, and no other part
InjectBehavioralDirectives(msgHistory, behavioralPrompt) ==
  LET users == {i \in 1..Len(msgHistory) : msgHistory[i].role = User} IN
  IF users = {} THEN NoEnhancement
  ELSE [index |-> CHOOSE i \in users : \A j \in users : j <= i,
        prompt |-> behavioralPrompt,
        attachments |-> 0]

\* ProcessRequest, line 128: the framework is there and tracks its performance
Tracking ==
  behavioralFramework # NilFramework /\ behavioralFramework.EnablePerformanceTrack

\* processGeneration, lines 773-824: the framework is given 15 seconds through
\* a context derived from the run's; an error is replaced by the fallback
\* result; a result with directives rewrites the last user message
ProcAugment(r) ==
  /\ runs[r].pc = IF Tracking THEN "tracked" ELSE "augment"
  /\ IF behavioralFramework = NilFramework
       THEN runs' = [runs EXCEPT ![r].pc = "loop"]
       ELSE \E ctxExpired \in IF behavioralFramework.Enabled THEN BOOLEAN ELSE {FALSE} :
              LET processed == ProcessRequest(behavioralFramework, ctxExpired)
                  behavioralResult == IF processed.err THEN CreateFallbackBehavioralResult
                                      ELSE processed.result
              IN  runs' = [runs EXCEPT
                    ![r].enhanced =
                       IF behavioralResult.BehavioralPrompt # ""
                         THEN InjectBehavioralDirectives(runs[r].history,
                                                         behavioralResult.BehavioralPrompt)
                         ELSE @,
                    ![r].expired = ctxExpired,
                    ![r].pc = "loop"]
  /\ UNCHANGED <<activeRequests, ctxDone, sums, msgs, sessions, eventsLeft, callsLeft,
                 faultsLeft, opsLeft, cancelInvocations, provider, updates, behavioralFramework, attachmentsLeft, tracker, monitor, classify>>

\* ---------------------------------------------------- performance tracking
\* PerformanceTracker.RecordProcessing: the metrics of the session are created
\* if the map has none, then the request and its enhancement are counted
RecordProcessing(pt, sessionID, enhancement) ==
  LET old == IF sessionID \in DOMAIN pt.metrics
               THEN pt.metrics[sessionID]
               ELSE [RequestCount |-> 0, EnhancementUsage |-> [e \in Enhancements |-> 0]]
      metrics == [old EXCEPT !.RequestCount = @ + 1, !.EnhancementUsage[enhancement] = @ + 1]
  IN  [pt EXCEPT !.metrics = [x \in DOMAIN pt.metrics \cup {sessionID} |->
                                IF x = sessionID THEN metrics ELSE pt.metrics[x]]]

\* RecordRequest counting a session each time it records a request
RecordRequestCountsSessionAgain(pm, sessionID, enhancement) ==
  LET old == IF sessionID \in DOMAIN pm.sessions
               THEN pm.sessions[sessionID]
               ELSE [RequestCount |-> 0, EnhancementUsage |-> [e \in Enhancements |-> 0],
                     QualityScores |-> <<>>]
      session == [old EXCEPT !.RequestCount = @ + 1, !.EnhancementUsage[enhancement] = @ + 1,
                             !.QualityScores = Append(@, enhancement)]
  IN  [pm EXCEPT !.sessions = [x \in DOMAIN pm.sessions \cup {sessionID} |->
                                 IF x = sessionID THEN session ELSE pm.sessions[x]],
                 !.globalMetrics.TotalSessions = @ + 1,
                 !.globalMetrics.TotalRequests = @ + 1,
                 !.globalMetrics.EnhancementUsage[enhancement] = @ + 1]

\* PerformanceMonitor.RecordRequest, lines 370-393: the metrics of the session
\* are created if the map has none, which counts a session; the request, its
\* enhancement and its quality score (that of the enhancement) are recorded for
\* the session, and the request and its enhancement are counted globally
RecordRequest(pm, sessionID, enhancement) ==
  LET created == sessionID \notin DOMAIN pm.sessions
      old == IF created
               THEN [RequestCount |-> 0, EnhancementUsage |-> [e \in Enhancements |-> 0],
                     QualityScores |-> <<>>]
               ELSE pm.sessions[sessionID]
      session == [old EXCEPT !.RequestCount = @ + 1, !.EnhancementUsage[enhancement] = @ + 1,
                             !.QualityScores = Append(@, enhancement)]
  IN  [pm EXCEPT !.sessions = [x \in DOMAIN pm.sessions \cup {sessionID} |->
                                 IF x = sessionID THEN session ELSE pm.sessions[x]],
                 !.globalMetrics.TotalSessions = IF created THEN @ + 1 ELSE @,
                 !.globalMetrics.TotalRequests = @ + 1,
                 !.globalMetrics.EnhancementUsage[enhancement] = @ + 1]

\* ProcessRequest, lines 113-129: the request is analysed and an enhancement
\* selected and applied; RecordProcessing starts to write the metrics map of
\* the tracker, which no lock protects
TrackerBegin(r) ==
  /\ runs[r].pc = "augment"
  /\ Tracking
  /\ \E e \in Enhancements :
       runs' = [q \in RunIds |->
                  IF q = r THEN [runs[q] EXCEPT !.enhancement = e,
                                               !.raced = tracker.writers # {},
                                               !.pc = "recording"]
                  ELSE IF q \in tracker.writers THEN [runs[q] EXCEPT !.raced = TRUE]
                  ELSE runs[q]]
  /\ tracker' = [tracker EXCEPT !.writers = @ \cup {r}]
  /\ UNCHANGED <<activeRequests, ctxDone, sums, msgs, sessions, eventsLeft, callsLeft,
                 faultsLeft, opsLeft, cancelInvocations, provider, updates,
                 behavioralFramework, attachmentsLeft, monitor, classify>>

\* RecordProcessing, lines 80-102 of part_001, returns: the update is made, or
\* it is lost when another unit wrote the map at the same time
TrackerEnd(r) ==
  /\ runs[r].pc = "recording"
  /\ \E outcome \in IF runs[r].raced THEN {"applied", "lost"} ELSE {"applied"} :
       tracker' = [IF outcome = "applied"
                     THEN RecordProcessing(tracker, runs[r].session, runs[r].enhancement)
                     ELSE tracker
                   EXCEPT !.writers = @ \ {r}]
  /\ runs' = [runs EXCEPT ![r].pc = "monitor"]
  /\ UNCHANGED <<activeRequests, ctxDone, sums, msgs, sessions, eventsLeft, callsLeft,
                 faultsLeft, opsLeft, cancelInvocations, provider, updates,
                 behavioralFramework, attachmentsLeft, monitor, classify>>

\* RecordRequest, lines 367-368: pm.mutex.Lock()
MonitorLock(r) ==
  /\ runs[r].pc = "monitor"
  /\ monitor.mutex = 0
  /\ monitor' = [monitor EXCEPT !.mutex = r]
  /\ runs' = [runs EXCEPT ![r].pc = "locked"]
  /\ UNCHANGED <<activeRequests, ctxDone, sums, msgs, sessions, eventsLeft, callsLeft,
                 faultsLeft, opsLeft, cancelInvocations, provider, updates,
                 behavioralFramework, attachmentsLeft, tracker, classify>>

\* RecordRequest, lines 370-412: the metrics are written, the mutex is released
MonitorRecord(r) ==
  /\ runs[r].pc = "locked"
  /\ monitor' = [RecordRequest(monitor, runs[r].session, runs[r].enhancement)
                  EXCEPT !.mutex = 0]
  /\ runs' = [runs EXCEPT ![r].pc = "metrics"]
  /\ UNCHANGED <<activeRequests, ctxDone, sums, msgs, sessions, eventsLeft, callsLeft,
                 faultsLeft, opsLeft, cancelInvocations, provider, updates,
                 behavioralFramework, attachmentsLeft, tracker, classify>>

\* trackBehavioralPerformance, line 593, and PerformanceMonitor.GetGlobalMetrics:
\* under the read lock the pointer to the global metrics is returned
GetGlobalMetrics(r) ==
  /\ runs[r].pc = "metrics"
  /\ monitor.mutex = 0
  /\ runs' = [runs EXCEPT ![r].pc = "report"]
  /\ UNCHANGED <<activeRequests, ctxDone, sums, msgs, sessions, eventsLeft, callsLeft,
                 faultsLeft, opsLeft, cancelInvocations, provider, updates,
                 behavioralFramework, attachmentsLeft, tracker, monitor, classify>>

\* trackBehavioralPerformance, lines 594-596: TotalRequests and
\* AverageQualityScore are read through the pointer, the lock no longer held
ReadGlobalMetrics(r) ==
  /\ runs[r].pc = "report"
  /\ runs' = [runs EXCEPT ![r].pc = "tracked"]
  /\ UNCHANGED <<activeRequests, ctxDone, sums, msgs, sessions, eventsLeft, callsLeft,
                 faultsLeft, opsLeft, cancelInvocations, provider, updates,
                 behavioralFramework, attachmentsLeft, tracker, monitor, classify>>

\* the title task, lines 741-745: a title error aborts the run it belongs to
TitleFailedAbortsRun(r) ==
  [runs EXCEPT ![r].title = "failed",
               ![r].result = AgentErr(<<"failed to generate title", StoreError>>),
               ![r].pc = IF @ \in {"session", "user", "augment", "loop", "recv", "post", "dispatch", "out"}
                           THEN "delete" ELSE @]

\* the title task, lines 741-745: the error generateTitle returns is only logged
TitleFailed(r) == [runs EXCEPT ![r].title = "failed"]

\* generateTitle, lines 650-659, in the task started at line 738: nothing to do
\* for an empty content or without a title provider (skip), else get the session
TitleGet(r) ==
  /\ runs[r].title = "get"
  /\ \E outcome \in {"skip", "ok", "fail"} :
       runs' = CASE outcome = "skip" -> [runs EXCEPT ![r].title = "done"]
                 [] outcome = "ok" ->
                      [runs EXCEPT ![r].title = "send",
                                   ![r].titleSession = sessions[runs[r].session]]
                 [] OTHER -> TitleFailed(r)
  /\ UNCHANGED <<activeRequests, ctxDone, sums, msgs, sessions,
                 eventsLeft, callsLeft, faultsLeft, opsLeft, cancelInvocations, provider, updates, behavioralFramework, attachmentsLeft, tracker, monitor, classify>>

\* generateTitle, lines 660-678: the call of the title provider, under
\* context.Background(); a panic is recovered by the task (lines 739-741)
TitleSend(r) ==
  /\ runs[r].title = "send"
  /\ \E outcome \in {"ok", "blank", "fail", "panic"} :
       runs' = CASE outcome = "ok" -> [runs EXCEPT ![r].title = "save"]
                 [] outcome = "blank" -> [runs EXCEPT ![r].title = "done"]
                 [] outcome = "panic" -> [runs EXCEPT ![r].title = "panicked"]
                 [] OTHER -> TitleFailed(r)
  /\ UNCHANGED <<activeRequests, ctxDone, sums, msgs, sessions,
                 eventsLeft, callsLeft, faultsLeft, opsLeft, cancelInvocations, provider, updates, behavioralFramework, attachmentsLeft, tracker, monitor, classify>>

\* generateTitle, lines 680-683: the session read at line 656 is saved with the title
TitleSave(r) ==
  /\ runs[r].title = "save"
  /\ \E outcome \in {"ok", "fail"} :
       IF outcome = "ok"
         THEN /\ sessions' = [sessions EXCEPT ![runs[r].session] =
                               [runs[r].titleSession EXCEPT !.Title = "title"]]
              /\ runs' = [runs EXCEPT ![r].title = "done"]
         ELSE /\ sessions' = sessions
              /\ runs' = TitleFailed(r)
  /\ UNCHANGED <<activeRequests, ctxDone, sums, msgs,
                 eventsLeft, callsLeft, faultsLeft, opsLeft, cancelInvocations, provider, updates, behavioralFramework, attachmentsLeft, tracker, monitor, classify>>

\* processGeneration, lines 826-834, and streamAndHandleEvents, lines 872-887:
\* the cancellation check of an iteration, then the stream and its assistant message
LoopIter(r) ==
  /\ runs[r].pc = "loop"
  /\ IF CtxDone(r)
       THEN /\ runs' = [runs EXCEPT ![r].result = AgentErr(<<ContextCanceled>>),
                                    ![r].cancelSeen = "loop", ![r].pc = "delete"]
            /\ UNCHANGED <<msgs, faultsLeft>>
       ELSE \E fault \in {"none", "create"} :
              /\ fault # "none" => faultsLeft > 0
              /\ IF fault = "none"
                   THEN /\ msgs' = Append(msgs, NewMessage(runs[r].session, Assistant))
                        /\ runs' = [runs EXCEPT
                             ![r].streams = @ + 1,
                             ![r].sent = runs[r].history,
                             ![r].asst = NewMessage(runs[r].session, Assistant),
                             ![r].asstId = Len(msgs) + 1,
                             ![r].provEnded = FALSE, ![r].idx = 0, ![r].results = <<>>,
                             ![r].deniedAt = 0, ![r].resolved = <<>>, ![r].failed = {}, ![r].events = <<>>,
                             ![r].executed = <<>>, ![r].recorded = <<>>,
                             ![r].pc = "recv"]
                        /\ faultsLeft' = faultsLeft
                   ELSE /\ msgs' = msgs
                        /\ runs' = [runs EXCEPT
                             ![r].streams = @ + 1,
                             ![r].sent = runs[r].history,
                             ![r].asst = NoMessage, ![r].asstId = 0,
                             ![r].result = AgentErr(<<"failed to process events",
                                 "failed to create assistant message", StoreError>>),
                             ![r].pc = "delete"]
                        /\ faultsLeft' = faultsLeft - 1
  /\ UNCHANGED <<activeRequests, ctxDone, sums, sessions,
                 eventsLeft, callsLeft, opsLeft, cancelInvocations, provider, updates, behavioralFramework, attachmentsLeft, tracker, monitor, classify>>

\* ------------------------------------------------- stream event processor
EventContentDelta == "content_delta"
EventThinkingDelta == "thinking_delta"
EventToolUseStart == "tool_use_start"
EventToolUseStop == "tool_use_stop"
EventError == "error"
EventComplete == "complete"

Event(type) == [type |-> type, name |-> "", id |-> 0, cause |-> "",
                finish |-> NoFinish, calls |-> <<>>, usage |-> NoUsage]

CallLists ==
  UNION {[1..n -> ToolNames] : n \in 0..callsLeft}

\* tool calls an event announces
Announced(ev) ==
  CASE ev.type = EventToolUseStart -> 1
    [] ev.type = EventComplete -> Len(ev.calls)
    [] OTHER -> 0

ToCalls(names) == [i \in 1..Len(names) |-> [id |-> i, name |-> names[i], finished |-> TRUE]]

\* the events a backend can deliver next on the stream of run r
ProviderEvents(r) ==
  {Event(EventContentDelta), Event(EventThinkingDelta)}
  \cup {[Event(EventToolUseStart) EXCEPT !.name = n, !.id = Len(runs[r].asst.calls) + 1] :
          n \in IF callsLeft > 0 THEN ToolNames ELSE {}}
  \cup {[Event(EventToolUseStop) EXCEPT !.id = i] : i \in 1..Len(runs[r].asst.calls)}
  \cup {[Event(EventError) EXCEPT !.cause = c] :
          c \in IF CtxDone(r) THEN {ContextCanceled, StreamError} ELSE {StreamError}}
  \cup {[Event(EventComplete) EXCEPT !.finish = f, !.calls = ToCalls(c), !.usage = u] :
          f \in {FinishReasonEndTurn, FinishReasonToolUse}, c \in CallLists, u \in Usages}

\* processEvent, lines 1003-1039: the effect of one event on the assistant message
ApplyEvent(m, ev) ==
  CASE ev.type = EventThinkingDelta -> [m EXCEPT !.reasoning = @ + 1]
    [] ev.type = EventContentDelta -> [m EXCEPT !.content = @ + 1]
    [] ev.type = EventToolUseStart ->
         [m EXCEPT !.calls = Append(@, [id |-> ev.id, name |-> ev.name, finished |-> FALSE])]
    [] ev.type = EventToolUseStop ->
         [m EXCEPT !.calls = [i \in 1..Len(@) |->
                                IF @[i].id = ev.id THEN [@[i] EXCEPT !.finished = TRUE] ELSE @[i]]]
    [] ev.type = EventComplete -> AddFinish([m EXCEPT !.calls = ev.calls], ev.finish)
    [] OTHER -> m

\* x * y + z computed as one fused operation, with a single rounding
FMulAdd(x, y, z) ==
  LET p == [m |-> BMul(x.m, y.m), e |-> x.e + y.e]
      s == FSumExact(IF p.m = <<>> THEN FZero ELSE p, z)
  IN FRound(s.m, s.e, FALSE)

\* TrackUsage, lines 1050-1053. A build may evaluate each x*y + z of the sum
\* as one fused operation (fused) or round the product and the sum separately.
Cost(model, usage, fused) ==
  LET a == FDivInt(model.CostPer1MInCached, Million)
      b == FDivInt(model.CostPer1MOutCached, Million)
      c == FDivInt(model.CostPer1MIn, Million)
      d == FDivInt(model.CostPer1MOut, Million)
      cw == FFromInt(usage.CacheCreationTokens)
      cr == FFromInt(usage.CacheReadTokens)
      in == FFromInt(usage.InputTokens)
      out == FFromInt(usage.OutputTokens)
  IN IF fused
       THEN FMulAdd(d, out, FMulAdd(c, in, FMulAdd(b, cr, FMul(a, cw))))
       ELSE FAdd(FAdd(FAdd(FMul(a, cw), FMul(b, cr)), FMul(c, in)), FMul(d, out))

\* Cost for the configured model, tabulated over the usages a response reports
ModelCost == [fused \in BOOLEAN |-> [u \in Usages |-> Cost(Model, u, fused)]]

CostOf(model, usage, fused) ==
  IF model = Model /\ usage \in Usages
    THEN ModelCost[fused][usage]
    ELSE Cost(model, usage, fused)

\* TrackUsage adding the tokens of the response to the counters of the session
TrackUsageAdds(sess, model, usage, fused) ==
  [sess EXCEPT !.Cost = FAdd(@, CostOf(model, usage, fused)),
               !.CompletionTokens = @ + usage.OutputTokens + usage.CacheReadTokens,
               !.PromptTokens = @ + usage.InputTokens + usage.CacheCreationTokens]

\* TrackUsage, lines 1055-1057
TrackUsage(sess, model, usage, fused) ==
  [sess EXCEPT !.Cost = FAdd(@, CostOf(model, usage, fused)),
               !.CompletionTokens = usage.OutputTokens + usage.CacheReadTokens,
               !.PromptTokens = usage.InputTokens + usage.CacheCreationTokens]

\* the message is not stored after an event
MessagesUpdateSkipped(store, id, m) == store

\* processEvent, lines 1006-1035: a.messages.Update stores the message
MessagesUpdate(store, id, m) == [store EXCEPT ![id] = m]

\* TrackUsage called for every event that is applied
AccountsEveryEvent(r, ev, fault) ==
  ~CtxDone(r) /\ ev.type # EventError /\ fault # "update"

\* processEvent, lines 996-1001 and 1032-1038: TrackUsage is called for a
\* complete event, unless the context is cancelled or the message update failed
Accounts(r, ev, fault) ==
  ~CtxDone(r) /\ ev.type = EventComplete /\ fault # "update"

\* processEvent ignoring the errors of the message and session stores
ProcessEventErrNoStore(r, ev, fault) ==
  IF CtxDone(r) THEN <<ContextCanceled>>
  ELSE IF ev.type = EventError THEN <<ev.cause>>
  ELSE <<>>

\* processEvent, lines 995-1042: the error it returns for an event, <<>> for nil
ProcessEventErr(r, ev, fault) ==
  IF CtxDone(r) THEN <<ContextCanceled>>
  ELSE IF ev.type = EventError THEN <<ev.cause>>
  ELSE IF fault = "update"
    THEN IF ev.type = EventComplete THEN <<"failed to update message", StoreError>>
         ELSE <<StoreError>>
  ELSE IF fault = "save" THEN <<"failed to save session", StoreError>>
  ELSE <<>>

\* streamAndHandleEvents, lines 889-893 with processEvent, and on an error
\* processGeneration, lines 835-842
StreamEvent(r) ==
  /\ runs[r].pc = "recv"
  /\ ~runs[r].provEnded
  /\ eventsLeft > 0
  /\ eventsLeft' = eventsLeft - 1
  /\ \E ev \in ProviderEvents(r), fault \in {"none", "update", "save"}, fused \in BOOLEAN :
       /\ fault # "none" => /\ faultsLeft > 0
                            /\ ~CtxDone(r)
                            /\ ev.type # EventError
                            /\ fault = "save" => ev.type = EventComplete
       /\ faultsLeft' = IF fault = "none" THEN faultsLeft ELSE faultsLeft - 1
       /\ callsLeft' = callsLeft - Announced(ev)
       /\ LET err == ProcessEventErr(r, ev, fault)
              applied == IF CtxDone(r) THEN runs[r].asst ELSE ApplyEvent(runs[r].asst, ev)
              tracked == Accounts(r, ev, fault) /\ fault = "none"
              s == runs[r].session
          IN /\ sessions' = IF tracked
                              THEN [sessions EXCEPT ![s] = TrackUsage(@, Model, ev.usage, fused)]
                              ELSE sessions
             /\ IF err = <<>>
                  THEN /\ msgs' = MessagesUpdate(msgs, runs[r].asstId, applied)
                       /\ runs' = [runs EXCEPT ![r].asst = applied,
                                               ![r].events = Append(@, ev),
                                               ![r].event = ev.type,
                                               ![r].completes = IF ev.type = EventComplete THEN @ + 1 ELSE @,
                                               ![r].accounted = IF Accounts(r, ev, fault) THEN @ + 1 ELSE @,
                                               ![r].provEnded = (ev.type = EventComplete),
                                               ![r].usage = IF tracked THEN ev.usage ELSE @,
                                               ![r].costBefore =
                                                  IF tracked THEN sessions[s].Cost ELSE @,
                                               ![r].pc = "post"]
                  ELSE LET finished == AddFinish(applied, FinishReasonCanceled) IN
                       /\ msgs' = [msgs EXCEPT ![runs[r].asstId] = finished]
                       /\ runs' = [runs EXCEPT
                            ![r].asst = finished,
                            ![r].event = ev.type,
                            ![r].completes = IF ev.type = EventComplete THEN @ + 1 ELSE @,
                            ![r].accounted = IF Accounts(r, ev, fault) THEN @ + 1 ELSE @,
                            ![r].cancelSeen = IF CtxDone(r) THEN "stream" ELSE @,
                            ![r].result =
                               IF ErrorsIs(err, ContextCanceled)
                                 THEN AgentErr(<<ErrRequestCancelled>>)
                                 ELSE AgentErr(<<"failed to process events">> \o err),
                            ![r].pc = "delete"]
  /\ UNCHANGED <<activeRequests, ctxDone, sums, opsLeft, cancelInvocations, provider, updates, behavioralFramework, attachmentsLeft, tracker, monitor, classify>>

\* streamAndHandleEvents, lines 894-897, and processGeneration, lines 835-840
PostEventCheck(r) ==
  /\ runs[r].pc = "post"
  /\ IF CtxDone(r)
       THEN LET finished == AddFinish(runs[r].asst, FinishReasonCanceled) IN
            /\ msgs' = [msgs EXCEPT ![runs[r].asstId] = finished]
            /\ runs' = [runs EXCEPT ![r].asst = finished,
                                    ![r].cancelSeen = "stream",
                                    ![r].result = AgentErr(<<ErrRequestCancelled>>),
                                    ![r].pc = "delete"]
       ELSE /\ msgs' = msgs
            /\ runs' = [runs EXCEPT ![r].pc = "recv"]
  /\ UNCHANGED <<activeRequests, ctxDone, sums, sessions,
                 eventsLeft, callsLeft, faultsLeft, opsLeft, cancelInvocations, provider, updates, behavioralFramework, attachmentsLeft, tracker, monitor, classify>>

\* streamAndHandleEvents, lines 889 and 900-901: the event channel is closed
StreamEnd(r) ==
  /\ runs[r].pc = "recv"
  /\ LET calls == runs[r].asst.calls IN
     runs' = [runs EXCEPT
                ![r].results = [i \in 1..Len(calls) |-> ZeroResult(0)],
                ![r].recorded = [i \in 1..Len(calls) |-> ZeroResult(0)],
                ![r].idx = 1,
                ![r].pc = IF Len(calls) = 0 THEN "out" ELSE "dispatch"]
  /\ UNCHANGED <<activeRequests, ctxDone, sums, msgs, sessions,
                 eventsLeft, callsLeft, faultsLeft, opsLeft, cancelInvocations, provider, updates, behavioralFramework, attachmentsLeft, tracker, monitor, classify>>

\* --------------------------------------------------------- tool dispatcher
CanceledResult(id) == [id |-> id, content |-> "Tool execution canceled by user", isError |-> TRUE]
DeniedResult(id) == [id |-> id, content |-> "Permission denied", isError |-> TRUE]
NotFoundResult(id, name) == [id |-> id, content |-> "Tool not found: " \o name, isError |-> TRUE]

\* what tool.Run can do: return a response (plain or flagged as an error), return an
\* error (permission denied or another one, with a zero response), or panic
ToolOutcomes == {"ok", "errorResponse", "fail", "denied", "panic"}

\* the response tool.Run returns with each outcome
ToolResponse(id, outcome) ==
  CASE outcome = "ok" -> [id |-> id, content |-> "ok", isError |-> FALSE]
    [] outcome = "errorResponse" -> [id |-> id, content |-> "failed", isError |-> TRUE]
    [] OTHER -> ZeroResult(id)

\* the cancellation loop starting at the first call: j := 0
CancelFromFirst(results, calls, from) ==
  [j \in 1..Len(results) |-> CanceledResult(calls[j].id)]

\* the cancellation loop starting one call too late: j := from + 1
CancelFromOffByOne(results, calls, from) ==
  [j \in 1..Len(results) |-> IF j > from THEN CanceledResult(calls[j].id) ELSE results[j]]

\* streamAndHandleEvents, lines 907-913 and 952-958: calls from index from on are cancelled
CancelFrom(results, calls, from) ==
  [j \in 1..Len(results) |-> IF j >= from THEN CanceledResult(calls[j].id) ELSE results[j]]

\* streamAndHandleEvents, line 960: the break leaves the select statement it is in,
\* so the enclosing for loop goes on with the next tool call
AfterDenied(i, n) == IF i + 1 > n THEN "out" ELSE "dispatch"

\* the dispatch loop staying at the call it has just handled
NextCallSame(i) == i

\* streamAndHandleEvents, line 902: the range loop goes on with the next call
NextCall(i) == i + 1

\* streamAndHandleEvents, lines 902-970: one iteration of the dispatch loop
DispatchCall(r) ==
  /\ runs[r].pc = "dispatch"
  /\ LET i == runs[r].idx
         calls == runs[r].asst.calls
         n == Len(calls)
         call == calls[i]
         next == IF i + 1 > n THEN "out" ELSE "dispatch"
     IN
     IF CtxDone(r)
       THEN LET finished == AddFinish(runs[r].asst, FinishReasonCanceled) IN
            /\ msgs' = [msgs EXCEPT ![runs[r].asstId] = finished]
            /\ runs' = [runs EXCEPT
                 ![r].asst = finished,
                 ![r].results = CancelFrom(@, calls, i),
                 ![r].cancelSeen = "dispatch",
                 ![r].pc = "out"]
       ELSE IF call.name \notin Tools
         THEN /\ msgs' = msgs
              /\ runs' = [runs EXCEPT
                   ![r].results[i] = NotFoundResult(call.id, call.name),
                   ![r].recorded[i] = NotFoundResult(call.id, call.name),
                   ![r].resolved = Append(@, i),
                   ![r].idx = NextCall(i), ![r].pc = next]
         ELSE \E outcome \in ToolOutcomes :
                CASE outcome = "panic" ->
                       /\ msgs' = msgs
                       /\ runs' = [runs EXCEPT ![r].resolved = Append(@, i),
                                               ![r].executed = Append(@, i),
                                               ![r].pc = "panic"]
                  [] outcome = "denied" ->
                       LET finished == AddFinish(runs[r].asst, FinishReasonPermissionDenied) IN
                       /\ msgs' = [msgs EXCEPT ![runs[r].asstId] = finished]
                       /\ runs' = [runs EXCEPT
                            ![r].asst = finished,
                            ![r].results = CancelFrom([@ EXCEPT ![i] = DeniedResult(call.id)],
                                                      calls, i + 1),
                            ![r].recorded[i] = DeniedResult(call.id),
                            ![r].deniedAt = IF @ = 0 THEN i ELSE @,
                            ![r].resolved = Append(@, i),
                            ![r].executed = Append(@, i),
                            ![r].idx = NextCall(i), ![r].pc = AfterDenied(i, n)]
                  [] OTHER ->
                       /\ msgs' = msgs
                       /\ runs' = [runs EXCEPT
                            ![r].results[i] = ToolResponse(call.id, outcome),
                            ![r].recorded[i] = ToolResponse(call.id, outcome),
                            ![r].failed = IF outcome = "fail" THEN @ \cup {i} ELSE @,
                            ![r].resolved = Append(@, i),
                            ![r].executed = Append(@, i),
                            ![r].idx = NextCall(i), ![r].pc = next]
  /\ UNCHANGED <<activeRequests, ctxDone, sums, sessions,
                 eventsLeft, callsLeft, faultsLeft, opsLeft, cancelInvocations, provider, updates, behavioralFramework, attachmentsLeft, tracker, monitor, classify>>

\* a tool message that holds the result of the first call only
ToolMessageFirstOnly(s, results) == [NewMessage(s, Tool) EXCEPT !.results = SubSeq(results, 1, 1)]

\* streamAndHandleEvents, lines 974-981: the results become the parts, in their
\* order, of one message of role tool
ToolMessage(s, results) == [NewMessage(s, Tool) EXCEPT !.results = results]

\* the loop goes on whenever the round has tool results, whatever the finish reason
ToolRoundAnyFinish(asst, results) == Len(results) # 0

\* processGeneration, line 850: the round is followed by another one
ToolRound(asst, results) == asst.finish = FinishReasonToolUse /\ Len(results) # 0

\* streamAndHandleEvents, lines 971-988, and processGeneration, lines 835-859:
\* pack the results into a tool message, then loop or return the response event
RoundEnd(r) ==
  /\ runs[r].pc = "out"
  /\ LET s == runs[r].session
         results == runs[r].results
         toolMsg == ToolMessage(s, results)
         response == [NoEvent EXCEPT !.type = AgentEventTypeResponse,
                                     !.msgId = runs[r].asstId,
                                     !.finish = runs[r].asst.finish,
                                     !.done = TRUE]
     IN
     \E fault \in {"none", "create"} :
       /\ fault # "none" => faultsLeft > 0 /\ Len(results) # 0
       /\ faultsLeft' = IF fault = "none" THEN faultsLeft ELSE faultsLeft - 1
       /\ IF fault = "create"
            THEN /\ msgs' = msgs
                 /\ runs' = [runs EXCEPT
                      ![r].result = AgentErr(<<"failed to process events",
                          "failed to create cancelled tool message", StoreError>>),
                      ![r].pc = "delete"]
            ELSE /\ msgs' = IF Len(results) = 0 THEN msgs ELSE Append(msgs, toolMsg)
                 /\ runs' = IF ToolRound(runs[r].asst, results)
                              THEN [runs EXCEPT
                                     ![r].history = @ \o <<[id |-> runs[r].asstId, role |-> Assistant],
                                                           [id |-> Len(msgs) + 1, role |-> Tool]>>,
                                     ![r].pc = "loop"]
                              ELSE [runs EXCEPT ![r].result = response, ![r].pc = "delete"]
  /\ UNCHANGED <<activeRequests, ctxDone, sums, sessions,
                 eventsLeft, callsLeft, opsLeft, cancelInvocations, provider, updates, behavioralFramework, attachmentsLeft, tracker, monitor, classify>>

\* ------------------------------------------------- Run (execution unit end)
\* Run, line 720
UnitDelete(r) ==
  /\ runs[r].pc = "delete"
  /\ activeRequests' = [activeRequests EXCEPT ![PlainKey(runs[r].session)] = NoHandle]
  /\ runs' = [runs EXCEPT ![r].unregistered = TRUE, ![r].pc = "cancel"]
  /\ UNCHANGED <<ctxDone, sums, msgs, sessions,
                 eventsLeft, callsLeft, faultsLeft, opsLeft, cancelInvocations, provider, updates, behavioralFramework, attachmentsLeft, tracker, monitor, classify>>

\* Run, line 721
UnitCancel(r) ==
  /\ runs[r].pc = "cancel"
  /\ ctxDone' = ctxDone \cup {RunHandle(r)}
  /\ runs' = [runs EXCEPT ![r].cancelCalled = TRUE, ![r].pc = "publish"]
  /\ UNCHANGED <<activeRequests, sums, msgs, sessions,
                 eventsLeft, callsLeft, faultsLeft, opsLeft, cancelInvocations, provider, updates, behavioralFramework, attachmentsLeft, tracker, monitor, classify>>

\* Run, line 722
UnitPublish(r) ==
  /\ runs[r].pc = "publish"
  /\ runs' = [runs EXCEPT ![r].pub = Append(@, runs[r].result), ![r].pc = "send"]
  /\ UNCHANGED <<activeRequests, ctxDone, sums, msgs, sessions,
                 eventsLeft, callsLeft, faultsLeft, opsLeft, cancelInvocations, provider, updates, behavioralFramework, attachmentsLeft, tracker, monitor, classify>>

\* Run, line 723: the send completes when the consumer of the stream receives
UnitSend(r) ==
  /\ runs[r].pc = "send"
  /\ runs' = [runs EXCEPT ![r].delivered = Append(@, runs[r].result), ![r].pc = "close"]
  /\ UNCHANGED <<activeRequests, ctxDone, sums, msgs, sessions,
                 eventsLeft, callsLeft, faultsLeft, opsLeft, cancelInvocations, provider, updates, behavioralFramework, attachmentsLeft, tracker, monitor, classify>>

\* Run, line 724; the goroutine ends
UnitClose(r) ==
  /\ runs[r].pc = "close"
  /\ runs' = [runs EXCEPT ![r].closed = TRUE, ![r].pc = "done"]
  /\ UNCHANGED <<activeRequests, ctxDone, sums, msgs, sessions,
                 eventsLeft, callsLeft, faultsLeft, opsLeft, cancelInvocations, provider, updates, behavioralFramework, attachmentsLeft, tracker, monitor, classify>>

\* Run, lines 708-710: the deferred handler of a recovered panic sends the
\* error event on the stream; then the goroutine ends
RecoverPanic(r) ==
  /\ runs[r].pc = "panic"
  /\ runs' = [runs EXCEPT
       ![r].delivered = Append(@, AgentErr(<<"panic while running the agent">>)),
       ![r].pc = "dead"]
  /\ UNCHANGED <<activeRequests, ctxDone, sums, msgs, sessions,
                 eventsLeft, callsLeft, faultsLeft, opsLeft, cancelInvocations, provider, updates, behavioralFramework, attachmentsLeft, tracker, monitor, classify>>

\* ------------------------------------------------------------------ Cancel
\* Cancel, lines 614 and 622: LoadAndDelete of the plain and of the summarize key
CancelFound(reg, s) == {reg[PlainKey(s)], reg[SummarizeKey(s)]} \ {NoHandle}

\* Cancel with Load in place of LoadAndDelete: the handles are invoked and stay registered
CancelEffectLoadOnly(reg, done, s) ==
  [reg |-> reg, done |-> done \cup CancelFound(reg, s)]

\* Cancel, lines 612-628: the registry and the contexts after Cancel(s)
CancelEffect(reg, done, s) ==
  [reg |-> [reg EXCEPT ![PlainKey(s)] = NoHandle, ![SummarizeKey(s)] = NoHandle],
   done |-> done \cup CancelFound(reg, s)]

Cancel(s) ==
  /\ opsLeft > 0
  /\ opsLeft' = opsLeft - 1
  /\ LET eff == CancelEffect(activeRequests, ctxDone, s)
         found == CancelFound(activeRequests, s)
     IN /\ activeRequests' = eff.reg
        /\ ctxDone' = eff.done
        /\ cancelInvocations' = [h \in Handles |->
                                   IF h \in found THEN cancelInvocations[h] + 1
                                   ELSE cancelInvocations[h]]
        /\ runs' = [r \in RunIds |->
                      IF RunHandle(r) \in found /\ ~CtxDone(r)
                        THEN [runs[r] EXCEPT !.cancelPc =
                                IF runs[r].pc \in {"recv", "post"} THEN "stream" ELSE "other"]
                        ELSE runs[r]]
  /\ UNCHANGED <<sums, msgs, sessions, eventsLeft, callsLeft, faultsLeft, provider, updates, behavioralFramework, attachmentsLeft, tracker, monitor, classify>>

\* --------------------------------------------------------------- Summarize
SumCtxDone(t) == SumHandle(t) \in ctxDone

Progress(text) == [type |-> AgentEventTypeSummarize, err |-> <<>>, progress |-> text,
                   sessionID |-> "", done |-> FALSE]
SumError(err) == [type |-> AgentEventTypeError, err |-> err, progress |-> "",
                  sessionID |-> "", done |-> TRUE]
SumComplete(s) == [type |-> AgentEventTypeSummarize, err |-> <<>>,
                   progress |-> "Summary complete", sessionID |-> s, done |-> TRUE]

\* Summarize, lines 1085-1101: busy check on the plain key, store under the summarize key
Summarize(s) ==
  /\ opsLeft > 0
  /\ opsLeft' = opsLeft - 1
  /\ \E t \in SumIds : sums[t].pc = "free"
  /\ LET t == NextFree(sums, SumIds) IN
       IF IsSessionBusy(s)
         THEN /\ sums' = [sums EXCEPT ![t].session = s, ![t].pc = "rejected",
                                      ![t].returned = ErrSessionBusy]
              /\ activeRequests' = activeRequests
         ELSE /\ sums' = [sums EXCEPT ![t].session = s, ![t].pc = "list"]
              /\ activeRequests' = [activeRequests EXCEPT ![SummarizeKey(s)] = SumHandle(t)]
  /\ UNCHANGED <<ctxDone, runs, msgs, sessions,
                 eventsLeft, callsLeft, faultsLeft, cancelInvocations, provider, updates, behavioralFramework, attachmentsLeft, tracker, monitor, classify>>

\* the task without the check for an empty message list (lines 1123-1131)
SumListNoEmptyCheck(t) ==
  /\ sums[t].pc = "list"
  /\ sums' = [sums EXCEPT
       ![t].pub = @ \o <<Progress("Starting summarization..."),
                         Progress("Analyzing conversation..."),
                         Progress("Generating summary...")>>,
       ![t].pc = "send"]
  /\ UNCHANGED <<activeRequests, ctxDone, runs, msgs, sessions,
                 eventsLeft, callsLeft, faultsLeft, opsLeft, cancelInvocations, provider, updates, behavioralFramework, attachmentsLeft, tracker, monitor, classify>>

\* Summarize, lines 1104-1156: list the messages
SumList(t) ==
  /\ sums[t].pc = "list"
  /\ \E fault \in {"none", "list"} :
       /\ fault # "none" => faultsLeft > 0 \/ SumCtxDone(t)
       /\ faultsLeft' = IF fault = "none" \/ SumCtxDone(t) THEN faultsLeft ELSE faultsLeft - 1
       /\ LET started == Append(sums[t].pub, Progress("Starting summarization...")) IN
          sums' = IF fault = "list"
                    THEN [sums EXCEPT
                           ![t].pub = Append(started, SumError(<<"failed to list messages", StoreError>>)),
                           ![t].pc = "cancel"]
                  ELSE IF Len(List(sums[t].session)) = 0
                    THEN [sums EXCEPT
                           ![t].pub = Append(started, SumError(<<"no messages to summarize">>)),
                           ![t].pc = "cancel"]
                  ELSE [sums EXCEPT
                           ![t].pub = started \o <<Progress("Analyzing conversation..."),
                                                   Progress("Generating summary...")>>,
                           ![t].pc = "send"]
  /\ UNCHANGED <<activeRequests, ctxDone, runs, msgs, sessions,
                 eventsLeft, callsLeft, opsLeft, cancelInvocations, provider, updates, behavioralFramework, attachmentsLeft, tracker, monitor, classify>>

\* Summarize, lines 1159-1189: the summarization backend answers
SumSend(t) ==
  /\ sums[t].pc = "send"
  /\ \E outcome \in {"ok", "blank", "fail"}, u \in Usages :
       /\ SumCtxDone(t) => outcome = "fail"
       /\ outcome = "fail" /\ ~SumCtxDone(t) => faultsLeft > 0
       /\ outcome # "ok" => u = CHOOSE x \in Usages : TRUE
       /\ faultsLeft' = IF outcome = "fail" /\ ~SumCtxDone(t) THEN faultsLeft - 1 ELSE faultsLeft
       /\ sums' = CASE outcome = "fail" ->
                       [sums EXCEPT
                          ![t].pub = Append(@, SumError(<<"failed to summarize",
                              IF SumCtxDone(t) THEN ContextCanceled ELSE StreamError>>)),
                          ![t].pc = "cancel"]
                    [] outcome = "blank" ->
                       [sums EXCEPT
                          ![t].pub = Append(@, SumError(<<"empty summary returned">>)),
                          ![t].pc = "cancel"]
                    [] OTHER ->
                       [sums EXCEPT
                          ![t].pub = Append(@, Progress("Creating new session...")),
                          ![t].usage = u,
                          ![t].pc = "get"]
  /\ UNCHANGED <<activeRequests, ctxDone, runs, msgs, sessions,
                 eventsLeft, callsLeft, opsLeft, cancelInvocations, provider, updates, behavioralFramework, attachmentsLeft, tracker, monitor, classify>>

\* Summarize, lines 1223-1232: the session after a summary
Summarized(sess, msgId, model, usage, fused) ==
  [sess EXCEPT !.SummaryMessageID = msgId,
               !.CompletionTokens = usage.OutputTokens,
               !.PromptTokens = 0,
               !.Cost = FAdd(@, CostOf(model, usage, fused))]

\* Summarize, lines 1190-1200: get the session
SumGet(t) ==
  /\ sums[t].pc = "get"
  /\ \E fault \in {"none", "get"} :
       /\ fault # "none" => faultsLeft > 0 \/ SumCtxDone(t)
       /\ faultsLeft' = IF fault = "none" \/ SumCtxDone(t) THEN faultsLeft ELSE faultsLeft - 1
       /\ sums' = IF fault = "get"
                    THEN [sums EXCEPT
                           ![t].pub = Append(@, SumError(<<"failed to get session", StoreError>>)),
                           ![t].pc = "cancel"]
                    ELSE [sums EXCEPT ![t].oldSession = sessions[sums[t].session],
                                      ![t].pc = "create"]
  /\ UNCHANGED <<activeRequests, ctxDone, runs, msgs, sessions,
                 eventsLeft, callsLeft, opsLeft, cancelInvocations, provider, updates, behavioralFramework, attachmentsLeft, tracker, monitor, classify>>

\* Summarize, lines 1201-1222: create the summary message
SumCreate(t) ==
  /\ sums[t].pc = "create"
  /\ \E fault \in {"none", "create"} :
       /\ fault # "none" => faultsLeft > 0 \/ SumCtxDone(t)
       /\ faultsLeft' = IF fault = "none" \/ SumCtxDone(t) THEN faultsLeft ELSE faultsLeft - 1
       /\ LET s == sums[t].session
              summaryMsg == AddFinish([NewMessage(s, Assistant) EXCEPT !.content = 1],
                                      FinishReasonEndTurn)
          IN IF fault = "create"
               THEN /\ sums' = [sums EXCEPT
                         ![t].pub = Append(@, SumError(<<"failed to create summary message",
                                                        StoreError>>)),
                         ![t].pc = "cancel"]
                    /\ msgs' = msgs
               ELSE /\ sums' = [sums EXCEPT ![t].msgId = Len(msgs) + 1, ![t].pc = "save"]
                    /\ msgs' = Append(msgs, summaryMsg)
  /\ UNCHANGED <<activeRequests, ctxDone, runs, sessions,
                 eventsLeft, callsLeft, opsLeft, cancelInvocations, provider, updates, behavioralFramework, attachmentsLeft, tracker, monitor, classify>>

\* Summarize, lines 1223-1249: update the session that was read and save it
SumSave(t) ==
  /\ sums[t].pc = "save"
  /\ \E fault \in {"none", "save"}, fused \in BOOLEAN :
       /\ fault # "none" => faultsLeft > 0 \/ SumCtxDone(t)
       /\ faultsLeft' = IF fault = "none" \/ SumCtxDone(t) THEN faultsLeft ELSE faultsLeft - 1
       /\ LET s == sums[t].session IN
          IF fault = "save"
            THEN /\ sums' = [sums EXCEPT
                      ![t].pub = @ \o <<SumError(<<"failed to save session", StoreError>>),
                                        SumComplete(s)>>,
                      ![t].pc = "cancel"]
                 /\ sessions' = sessions
            ELSE /\ sums' = [sums EXCEPT ![t].pub = Append(@, SumComplete(s)),
                                         ![t].pc = "cancel"]
                 /\ sessions' = [sessions EXCEPT
                      ![s] = Summarized(sums[t].oldSession, sums[t].msgId, Model,
                                        sums[t].usage, fused)]
  /\ UNCHANGED <<activeRequests, ctxDone, runs, msgs,
                 eventsLeft, callsLeft, opsLeft, cancelInvocations, provider, updates, behavioralFramework, attachmentsLeft, tracker, monitor, classify>>

\* Summarize, line 1103: the deferred cancel()
SumCancel(t) ==
  /\ sums[t].pc = "cancel"
  /\ ctxDone' = ctxDone \cup {SumHandle(t)}
  /\ sums' = [sums EXCEPT ![t].pc = "delete"]
  /\ UNCHANGED <<activeRequests, runs, msgs, sessions,
                 eventsLeft, callsLeft, faultsLeft, opsLeft, cancelInvocations, provider, updates, behavioralFramework, attachmentsLeft, tracker, monitor, classify>>

\* Summarize, line 1102: the deferred Delete of the summarize key
SumDelete(t) ==
  /\ sums[t].pc = "delete"
  /\ activeRequests' = [activeRequests EXCEPT ![SummarizeKey(sums[t].session)] = NoHandle]
  /\ sums' = [sums EXCEPT ![t].pc = "done"]
  /\ UNCHANGED <<ctxDone, runs, msgs, sessions,
                 eventsLeft, callsLeft, faultsLeft, opsLeft, cancelInvocations, provider, updates, behavioralFramework, attachmentsLeft, tracker, monitor, classify>>

\* ----------------------------------------------------------- specification
\* Concurrent Run, Cancel and Summarize calls. In this specification the
\* backend streams end without an event and the stores do not fail;
\* SpecLoop follows a Run through its events, tool calls and failures.
\* IsBusy, lines 630-642: some registry entry holds a cancellation handle
IsBusy == \E k \in Keys : activeRequests[k] # NoHandle

\* Update, lines 1066-1069: the busy check
UpdateCheck(m) ==
  /\ opsLeft > 0
  /\ opsLeft' = opsLeft - 1
  /\ \E u \in UpdateIds : updates[u].pc = "free"
  /\ LET u == NextFree(updates, UpdateIds) IN
       updates' = IF IsBusy
                    THEN [updates EXCEPT
                            ![u].modelID = m, ![u].pc = "rejected",
                            ![u].returned = "cannot change model while processing requests"]
                    ELSE [updates EXCEPT ![u].modelID = m, ![u].pc = "swap"]
  /\ UNCHANGED <<activeRequests, ctxDone, runs, sums, msgs, sessions,
                 eventsLeft, callsLeft, faultsLeft, cancelInvocations, provider,
                 behavioralFramework, attachmentsLeft, tracker, monitor, classify>>

\* Update, lines 1071-1082: the configuration is updated, the provider is
\* created and assigned; either of the first two can fail
UpdateSwap(u) ==
  /\ updates[u].pc = "swap"
  /\ \E outcome \in {"ok", "config", "create"} :
       CASE outcome = "ok" ->
              /\ provider' = updates[u].modelID
              /\ updates' = [updates EXCEPT ![u].pc = "done"]
         [] outcome = "config" ->
              /\ provider' = provider
              /\ updates' = [updates EXCEPT ![u].pc = "failed",
                                            ![u].returned = "failed to update config"]
         [] OTHER ->
              /\ provider' = provider
              /\ updates' = [updates EXCEPT ![u].pc = "failed",
                                            ![u].returned = "failed to create provider"]
  /\ UNCHANGED <<activeRequests, ctxDone, runs, sums, msgs, sessions,
                 eventsLeft, callsLeft, faultsLeft, opsLeft, cancelInvocations,
                 behavioralFramework, attachmentsLeft, tracker, monitor, classify>>

Next ==
  \/ \E s \in Sessions : RunCheck(s)
  \/ \E r \in RunIds : RunStore(r)
  \/ \E r \in RunIds : ProcList(r)
  \/ \E r \in RunIds : ProcGet(r)
  \/ \E r \in RunIds : ProcCreate(r)
  \/ \E r \in RunIds : ProcAugment(r)
  \/ \E r \in RunIds : LoopIter(r)
  \/ \E r \in RunIds : StreamEnd(r)
  \/ \E r \in RunIds : RoundEnd(r)
  \/ \E r \in RunIds : UnitDelete(r)
  \/ \E r \in RunIds : UnitCancel(r)
  \/ \E r \in RunIds : UnitPublish(r)
  \/ \E r \in RunIds : UnitSend(r)
  \/ \E r \in RunIds : UnitClose(r)
  \/ \E s \in Sessions : Cancel(s)
  \/ \E s \in Sessions : Summarize(s)
  \/ \E t \in SumIds : SumList(t)
  \/ \E t \in SumIds : SumSend(t)
  \/ \E t \in SumIds : SumGet(t)
  \/ \E t \in SumIds : SumCreate(t)
  \/ \E t \in SumIds : SumSave(t)
  \/ \E t \in SumIds : SumCancel(t)
  \/ \E t \in SumIds : SumDelete(t)

Spec == Init /\ [][Next]_vars

\* One Run on one session, with Cancel: the conversation loop, the stream
\* event processor and the tool dispatcher over longer streams.
InitLoop ==
  /\ activeRequests = [k \in Keys |-> NoHandle]
  /\ ctxDone = {}
  /\ runs = [r \in RunIds |-> IF r = 1 THEN FreeRun ELSE [FreeRun EXCEPT !.pc = "unused"]]
  /\ sums = [t \in SumIds |-> [FreeSum EXCEPT !.pc = "unused"]]
  /\ msgs = <<>>
  /\ sessions = [s \in Sessions |-> NewSession]
  /\ eventsLeft = LoopEvents
  /\ callsLeft = LoopCalls
  /\ faultsLeft = LoopFaults
  /\ opsLeft = LoopOps
  /\ cancelInvocations = [h \in Handles |-> 0]
  /\ provider = InitialModel
  /\ updates = [u \in UpdateIds |-> [FreeUpdate EXCEPT !.pc = "unused"]]
  /\ behavioralFramework = NewBehavioralFramework(FALSE, FALSE)
  /\ attachmentsLeft = 0
  /\ tracker = NewPerformanceTracker
  /\ monitor = NewPerformanceMonitor
  /\ classify = NoClassification

NextLoop ==
  \/ \E s \in Sessions : RunCheck(s)
  \/ \E r \in RunIds : RunStore(r)
  \/ \E r \in RunIds : ProcList(r)
  \/ \E r \in RunIds : ProcGet(r)
  \/ \E r \in RunIds : ProcCreate(r)
  \/ \E r \in RunIds : ProcAugment(r)
  \/ \E r \in RunIds : LoopIter(r)
  \/ \E r \in RunIds : StreamEvent(r)
  \/ \E r \in RunIds : PostEventCheck(r)
  \/ \E r \in RunIds : StreamEnd(r)
  \/ \E r \in RunIds : DispatchCall(r)
  \/ \E r \in RunIds : RoundEnd(r)
  \/ \E r \in RunIds : UnitDelete(r)
  \/ \E r \in RunIds : UnitCancel(r)
  \/ \E r \in RunIds : UnitPublish(r)
  \/ \E r \in RunIds : UnitSend(r)
  \/ \E r \in RunIds : UnitClose(r)
  \/ \E r \in RunIds : RecoverPanic(r)
  \/ \E s \in Sessions : Cancel(s)

SpecLoop == InitLoop /\ [][NextLoop]_vars

\* ---------------------- SpecAugment: a Run of an agent with a configured framework
AugmentEvents == 1
AugmentCalls == 1
AugmentFaults == 1
AugmentOps == 2
AugmentAttachments == 1

InitAugment ==
  /\ activeRequests = [k \in Keys |-> NoHandle]
  /\ ctxDone = {}
  /\ runs = [r \in RunIds |-> IF r = 1 THEN FreeRun ELSE [FreeRun EXCEPT !.pc = "unused"]]
  /\ sums = [t \in SumIds |-> [FreeSum EXCEPT !.pc = "unused"]]
  /\ msgs = <<>>
  /\ sessions = [s \in Sessions |-> NewSession]
  /\ eventsLeft = AugmentEvents
  /\ callsLeft = AugmentCalls
  /\ faultsLeft = AugmentFaults
  /\ opsLeft = AugmentOps
  /\ cancelInvocations = [h \in Handles |-> 0]
  /\ provider = InitialModel
  /\ updates = [u \in UpdateIds |-> [FreeUpdate EXCEPT !.pc = "unused"]]
  /\ \E enabled \in BOOLEAN : behavioralFramework = NewBehavioralFramework(enabled, FALSE)
  /\ attachmentsLeft = AugmentAttachments
  /\ tracker = NewPerformanceTracker
  /\ monitor = NewPerformanceMonitor
  /\ classify = NoClassification

SpecAugment == InitAugment /\ [][NextLoop]_vars

\* ------------- SpecPerf: Runs of an agent whose framework tracks its performance
PerfOps == 2

InitPerf ==
  /\ activeRequests = [k \in Keys |-> NoHandle]
  /\ ctxDone = {}
  /\ runs = [r \in RunIds |-> FreeRun]
  /\ sums = [t \in SumIds |-> [FreeSum EXCEPT !.pc = "unused"]]
  /\ msgs = <<>>
  /\ sessions = [s \in Sessions |-> NewSession]
  /\ eventsLeft = 0
  /\ callsLeft = 0
  /\ faultsLeft = 0
  /\ opsLeft = PerfOps
  /\ cancelInvocations = [h \in Handles |-> 0]
  /\ provider = InitialModel
  /\ updates = [u \in UpdateIds |-> [FreeUpdate EXCEPT !.pc = "unused"]]
  /\ behavioralFramework = NewBehavioralFramework(TRUE, TRUE)
  /\ attachmentsLeft = 0
  /\ tracker = NewPerformanceTracker
  /\ monitor = NewPerformanceMonitor
  /\ classify = NoClassification

NextPerf ==
  \/ \E s \in Sessions : RunCheck(s)
  \/ \E r \in RunIds : RunStore(r)
  \/ \E r \in RunIds : ProcList(r)
  \/ \E r \in RunIds : ProcGet(r)
  \/ \E r \in RunIds : ProcCreate(r)
  \/ \E r \in RunIds : ProcAugment(r)
  \/ \E r \in RunIds : LoopIter(r)
  \/ \E r \in RunIds : StreamEnd(r)
  \/ \E r \in RunIds : RoundEnd(r)
  \/ \E r \in RunIds : UnitDelete(r)
  \/ \E r \in RunIds : UnitCancel(r)
  \/ \E r \in RunIds : UnitPublish(r)
  \/ \E r \in RunIds : UnitSend(r)
  \/ \E r \in RunIds : UnitClose(r)
  \/ \E s \in Sessions : Cancel(s)
  \/ \E r \in RunIds : TrackerBegin(r)
  \/ \E r \in RunIds : TrackerEnd(r)
  \/ \E r \in RunIds : MonitorLock(r)
  \/ \E r \in RunIds : MonitorRecord(r)
  \/ \E r \in RunIds : GetGlobalMetrics(r)
  \/ \E r \in RunIds : ReadGlobalMetrics(r)

SpecPerf == InitPerf /\ [][NextPerf]_vars

\* ----------------------------- SpecClassify: ClassifyProblem called on one content
MaxKeywordHits == 2
MaxMatchedTypes == 3
MaxClassifyCalls == 2

\* NewPatternRecognizer: the problem types that have keyword patterns
ProblemTypes == {"TechnicalIssue", "ProcessImprovement", "DecisionMaking",
                 "Troubleshooting", "CodeGeneration", "Analysis"}

\* ClassifyProblem, lines 203-210 of part_001: the loop over the scores, the map
\* entries visited in the given order; a type replaces the result only when
\* its score is greater than the highest one seen
RECURSIVE ClassifyLoop(_, _, _, _)
ClassifyLoop(order, scores, maxScore, resultType) ==
  IF order = <<>> THEN resultType
  ELSE LET problemType == Head(order) IN
       IF scores[problemType] > maxScore
         THEN ClassifyLoop(Tail(order), scores, scores[problemType], problemType)
         ELSE ClassifyLoop(Tail(order), scores, maxScore, resultType)

\* PatternRecognizer.ClassifyProblem: the scores map gets an entry for each
\* problem type of which the content holds a keyword; the range over this map
\* visits its entries in an order the runtime chooses anew for each loop
ClassifyProblem ==
  /\ Len(classify.results) < MaxClassifyCalls
  /\ LET matched == {t \in ProblemTypes : classify.content[t] > 0}
         scores == [t \in matched |-> classify.content[t]]
         orders == {o \in [1..Cardinality(matched) -> matched] :
                      \A i, j \in 1..Cardinality(matched) : o[i] = o[j] => i = j}
     IN  \E order \in orders :
           classify' = [classify EXCEPT
                          !.results = Append(@, ClassifyLoop(order, scores, 0, "General"))]
  /\ UNCHANGED <<activeRequests, ctxDone, runs, sums, msgs, sessions, eventsLeft,
                 callsLeft, faultsLeft, opsLeft, cancelInvocations, provider, updates,
                 behavioralFramework, attachmentsLeft, tracker, monitor>>

\* a content is given by the number of keywords of each problem type it holds
InitClassify ==
  /\ activeRequests = [k \in Keys |-> NoHandle]
  /\ ctxDone = {}
  /\ runs = [r \in RunIds |-> [FreeRun EXCEPT !.pc = "unused"]]
  /\ sums = [t \in SumIds |-> [FreeSum EXCEPT !.pc = "unused"]]
  /\ msgs = <<>>
  /\ sessions = [s \in Sessions |-> NewSession]
  /\ eventsLeft = 0
  /\ callsLeft = 0
  /\ faultsLeft = 0
  /\ opsLeft = 0
  /\ cancelInvocations = [h \in Handles |-> 0]
  /\ provider = InitialModel
  /\ updates = [u \in UpdateIds |-> [FreeUpdate EXCEPT !.pc = "unused"]]
  /\ behavioralFramework = NewBehavioralFramework(TRUE, FALSE)
  /\ attachmentsLeft = 0
  /\ tracker = NewPerformanceTracker
  /\ monitor = NewPerformanceMonitor
  /\ \E content \in {c \in [ProblemTypes -> 0..MaxKeywordHits] :
                        Cardinality({t \in ProblemTypes : c[t] > 0}) <= MaxMatchedTypes} :
       classify = [content |-> content, results |-> <<>>]

SpecClassify == InitClassify /\ [][ClassifyProblem]_vars

\* ------------------------- SpecUpdate: Update among Run, Cancel and Summarize calls
InitUpdate ==
  /\ activeRequests = [k \in Keys |-> NoHandle]
  /\ ctxDone = {}
  /\ runs = [r \in RunIds |-> FreeRun]
  /\ sums = [t \in SumIds |-> FreeSum]
  /\ msgs = <<>>
  /\ sessions = [s \in Sessions |-> NewSession]
  /\ eventsLeft = 0
  /\ callsLeft = 0
  /\ faultsLeft = 0
  /\ opsLeft = UpdateOps
  /\ cancelInvocations = [h \in Handles |-> 0]
  /\ provider = InitialModel
  /\ updates = [u \in UpdateIds |-> FreeUpdate]
  /\ behavioralFramework = NewBehavioralFramework(FALSE, FALSE)
  /\ attachmentsLeft = 0
  /\ tracker = NewPerformanceTracker
  /\ monitor = NewPerformanceMonitor
  /\ classify = NoClassification

NextUpdate ==
  \/ Next
  \/ \E m \in Models : UpdateCheck(m)
  \/ \E u \in UpdateIds : UpdateSwap(u)

SpecUpdate == InitUpdate /\ [][NextUpdate]_vars

\* ------------------------------------------------ SpecTitle: a Run and its title task
InitTitle ==
  /\ activeRequests = [k \in Keys |-> NoHandle]
  /\ ctxDone = {}
  /\ runs = [r \in RunIds |-> IF r = 1 THEN FreeRun ELSE [FreeRun EXCEPT !.pc = "unused"]]
  /\ sums = [t \in SumIds |-> [FreeSum EXCEPT !.pc = "unused"]]
  /\ msgs = <<>>
  /\ sessions = [s \in Sessions |-> NewSession]
  /\ eventsLeft = TitleEvents
  /\ callsLeft = TitleCalls
  /\ faultsLeft = TitleFaults
  /\ opsLeft = TitleOps
  /\ cancelInvocations = [h \in Handles |-> 0]
  /\ provider = InitialModel
  /\ updates = [u \in UpdateIds |-> [FreeUpdate EXCEPT !.pc = "unused"]]
  /\ behavioralFramework = NewBehavioralFramework(FALSE, FALSE)
  /\ attachmentsLeft = 0
  /\ tracker = NewPerformanceTracker
  /\ monitor = NewPerformanceMonitor
  /\ classify = NoClassification

NextTitle ==
  \/ NextLoop
  \/ \E r \in RunIds : TitleGet(r)
  \/ \E r \in RunIds : TitleSend(r)
  \/ \E r \in RunIds : TitleSave(r)

\* a step of the execution unit of run r
UnitStep(r) ==
  \/ ProcList(r) \/ ProcGet(r) \/ ProcCreate(r) \/ ProcAugment(r) \/ LoopIter(r)
  \/ StreamEvent(r) \/ PostEventCheck(r) \/ StreamEnd(r) \/ DispatchCall(r)
  \/ RoundEnd(r) \/ UnitDelete(r) \/ UnitCancel(r) \/ UnitPublish(r)
  \/ UnitSend(r) \/ UnitClose(r) \/ RecoverPanic(r)


SpecTitle == InitTitle /\ [][NextTitle]_vars

\* the goroutine of a run is scheduled, the provider delivers its events and
\* closes its stream (also when its context is cancelled), the tools return,
\* and the consumer reads the stream of the run; the title task may stall
SpecTitleFair ==
  InitTitle /\ [][NextTitle]_vars /\ \A r \in RunIds : WF_vars(UnitStep(r))

\* ================================================================== claims
\* the conversation loop of a Run is in progress, or has returned and the
\* registry entry is not yet deleted
UnitActive(r) ==
  runs[r].pc \in {"gen", "session", "user", "augment", "recording", "monitor", "locked", "metrics",
                  "report", "tracked", "loop", "recv", "post", "dispatch", "out", "panic", "delete"}

\* processGeneration of Run r has returned its result
Returned(r) == runs[r].pc \in {"delete", "cancel", "publish", "send", "close", "done"}

\* the goroutine of Run r has ended
UnitEnded(r) == runs[r].pc \in {"done", "dead"}

\* C1: a Run call on a session whose plain key is registered returns
\* ErrSessionBusy, creates no message, leaves the registry and every other
\* Run as they are, and never starts an execution unit.
C1_BusyRunRejected ==
  /\ [][\A r \in RunIds :
          (/\ runs[r].pc = "free"
           /\ runs'[r].pc # "free"
           /\ activeRequests[PlainKey(runs'[r].session)] # NoHandle)
          => /\ runs'[r].pc = "rejected"
             /\ runs'[r].returned = ErrSessionBusy
             /\ msgs' = msgs
             /\ sessions' = sessions
             /\ activeRequests' = activeRequests
             /\ ctxDone' = ctxDone
             /\ \A q \in RunIds \ {r} : runs'[q] = runs[q]]_vars
  /\ [][\A r \in RunIds : runs[r].pc = "rejected" => runs'[r] = runs[r]]_vars

C1_Witness ==
  \E r \in RunIds : /\ runs[r].pc = "rejected"
                    /\ runs[r].returned = ErrSessionBusy
                    /\ activeRequests[PlainKey(runs[r].session)] # NoHandle

\* C2: concurrent Run calls on one session never leave two execution units
\* active for it (stated for behaviours in which Cancel has removed no entry).
C2_AdmissionAtomic ==
  (\A h \in Handles : cancelInvocations[h] = 0)
    => \A s \in Sessions :
         Cardinality({r \in RunIds : runs[r].session = s /\ UnitActive(r)}) <= 1

\* C6: Cancel(s) removes the plain and the summarize key of s, invokes each
\* handle it found and nothing else, changes nothing when it finds neither,
\* invokes no handle twice, and a second Cancel(s) right after changes nothing.
CancelStep ==
  /\ opsLeft' = opsLeft - 1
  /\ \A r \in RunIds : runs'[r].pc = runs[r].pc
  /\ \A t \in SumIds : sums'[t].pc = sums[t].pc

C6_Cancel ==
  /\ [][CancelStep =>
          \E s \in Sessions :
            LET found == {activeRequests[s], activeRequests[s \o "-summarize"]} \ {NoHandle}
            IN /\ activeRequests'[s] = NoHandle
               /\ activeRequests'[s \o "-summarize"] = NoHandle
               /\ \A k \in Keys \ {s, s \o "-summarize"} : activeRequests'[k] = activeRequests[k]
               /\ ctxDone' = ctxDone \cup found
               /\ \A h \in Handles :
                    cancelInvocations'[h] = cancelInvocations[h] + (IF h \in found THEN 1 ELSE 0)
               /\ found = {} => UNCHANGED <<activeRequests, ctxDone, runs, sums, msgs,
                                            sessions, cancelInvocations>>]_vars
  /\ [](\A h \in Handles : cancelInvocations[h] <= 1)
  /\ [](\A s \in Sessions :
          LET once == CancelEffect(activeRequests, ctxDone, s)
          IN CancelEffect(once.reg, once.done, s) = once)

C6_Witness ==
  \E r \in RunIds, t \in SumIds :
    /\ runs[r].session = sums[t].session
    /\ cancelInvocations[RunHandle(r)] = 1
    /\ cancelInvocations[SumHandle(t)] = 1
    /\ activeRequests[PlainKey(runs[r].session)] = NoHandle
    /\ activeRequests[SummarizeKey(runs[r].session)] = NoHandle

\* C3: when the execution unit of an accepted Run has ended, exactly one
\* terminal event (response or error) was delivered on its stream and the
\* stream is closed; no stream ever carries more than one event.
C3_OneTerminalEventThenClose ==
  \A r \in RunIds :
    /\ Len(runs[r].delivered) <= 1
    /\ runs[r].closed => Len(runs[r].delivered) = 1
    /\ UnitEnded(r) =>
         /\ Len(runs[r].delivered) = 1
         /\ runs[r].delivered[1].type \in {AgentEventTypeResponse, AgentEventTypeError}
         /\ runs[r].closed

\* C4: once the execution unit of a Run has ended, the plain key of its
\* session is not registered (no other Run is made in SpecLoop), so the
\* session is not busy and a later Run is accepted.
C4_EntryRemovedAtEnd ==
  \A r \in RunIds :
    UnitEnded(r) => activeRequests[PlainKey(runs[r].session)] = NoHandle

\* C5: the end of a Run is ordered: registry entry removed, cancellation
\* handle invoked, event published, same event delivered, stream closed; so
\* a delivered event was published before, by a unit that had unregistered.
C5_EndOrder ==
  \A r \in RunIds :
    /\ runs[r].cancelCalled => runs[r].unregistered
    /\ runs[r].pub # <<>> => runs[r].cancelCalled /\ activeRequests[PlainKey(runs[r].session)] # RunHandle(r)
    /\ runs[r].delivered # <<>> => runs[r].pub = runs[r].delivered
    /\ runs[r].closed => runs[r].delivered # <<>>

\* C7: a Run cancelled while its assistant message was being streamed ends
\* with that message finished as cancelled, in memory and in the store.
C7_CancelledStreamFinished ==
  \A r \in RunIds :
    (runs[r].cancelPc = "stream" /\ Returned(r))
      => /\ runs[r].asst.finish = FinishReasonCanceled
         /\ msgs[runs[r].asstId].finish = FinishReasonCanceled

\* C8: a Run that finds the cancellation set at the check before a streaming
\* iteration ends with an error event whose error is ErrRequestCancelled.
C8_LoopCancelIsRequestCancelled ==
  \A r \in RunIds :
    runs[r].cancelSeen = "loop"
      => /\ runs[r].result.type = AgentEventTypeError
         /\ ErrorsIs(runs[r].result.err, ErrRequestCancelled)

\* C9: a Run that observes the cancellation in the tool dispatch loop has its
\* assistant message finished as cancelled and ends with an error event that
\* carries ErrRequestCancelled, not with a response event.
C9_DispatchCancelSurfaces ==
  \A r \in RunIds :
    (runs[r].cancelSeen = "dispatch" /\ Returned(r))
      => /\ runs[r].asst.finish = FinishReasonCanceled
         /\ runs[r].result.type = AgentEventTypeError
         /\ ErrorsIs(runs[r].result.err, ErrRequestCancelled)

\* C10: after a dispatch round of N calls in which call k was the first one
\* denied, there are N results: the recorded ones before k, "Permission
\* denied" for k, cancelled ones after k; the finish reason is permission-denied.
C10_DeniedRound ==
  \A r \in RunIds :
    (runs[r].deniedAt # 0 /\ (runs[r].pc = "out" \/ Returned(r)))
      => LET k == runs[r].deniedAt
             calls == runs[r].asst.calls
             results == runs[r].results
         IN /\ Len(results) = Len(calls)
            /\ \A i \in 1..Len(results) :
                 results[i] = IF i < k THEN runs[r].recorded[i]
                              ELSE IF i = k THEN DeniedResult(calls[i].id)
                              ELSE CanceledResult(calls[i].id)
            /\ runs[r].asst.finish = FinishReasonPermissionDenied

\* C11: once a tool call of a round has failed with permission-denied, no
\* call announced after it in that round is resolved or executed.
C11_DeniedStopsDispatch ==
  \A r \in RunIds :
    runs[r].deniedAt # 0
      => /\ \A n \in 1..Len(runs[r].resolved) : runs[r].resolved[n] <= runs[r].deniedAt
         /\ \A n \in 1..Len(runs[r].executed) : runs[r].executed[n] <= runs[r].deniedAt

\* C12: when the dispatch loop of a round has been left (all calls handled,
\* cancelled, or one of them denied), there is one result per tool call, and
\* the i-th result carries the id of the i-th call.
C12_OneResultPerCall ==
  \A r \in RunIds :
    runs[r].pc = "out"
      => /\ Len(runs[r].results) = Len(runs[r].asst.calls)
         /\ \A i \in 1..Len(runs[r].results) :
              runs[r].results[i].id = runs[r].asst.calls[i].id

C12_Witness ==
  \E r \in RunIds :
    /\ runs[r].pc = "out"
    /\ runs[r].cancelSeen = "dispatch"
    /\ Len(runs[r].results) >= 2
    /\ runs[r].idx = 2
    /\ runs[r].results[2] = CanceledResult(runs[r].asst.calls[2].id)

\* the claim's expression evaluated in float64 as it is written:
\* input*priceIn/1e6 + output*priceOut/1e6 + cacheWrite*priceCacheWrite/1e6
\* + cacheRead*priceCacheRead/1e6
ClaimedCost(model, usage) ==
  LET term(tokens, price) == FDivInt(FMul(FFromInt(tokens), price), Million)
  IN FAdd(FAdd(FAdd(term(usage.InputTokens, model.CostPer1MIn),
                    term(usage.OutputTokens, model.CostPer1MOut)),
               term(usage.CacheCreationTokens, model.CostPer1MInCached)),
          term(usage.CacheReadTokens, model.CostPer1MOutCached))

\* the float64 nearest to the real number the claim's expression denotes
NearestCost(model, usage) ==
  LET prod(tokens, price) ==
        LET m == BMul(BFromInt(tokens), price.m)
        IN IF m = <<>> THEN FZero ELSE [m |-> m, e |-> price.e]
      sum == FSumExact(FSumExact(prod(usage.InputTokens, model.CostPer1MIn),
                                 prod(usage.OutputTokens, model.CostPer1MOut)),
                       FSumExact(prod(usage.CacheCreationTokens, model.CostPer1MInCached),
                                 prod(usage.CacheReadTokens, model.CostPer1MOutCached)))
      q == BDivSmall(BShiftLeft(sum.m, DivGuardBits), Million)
  IN FRound(q.q, sum.e - DivGuardBits, q.r # 0)

\* C13: after a stream-complete event the cost of the session is its cost
\* before the event plus input*priceIn/1e6 + output*priceOut/1e6 +
\* cacheWrite*priceCacheWrite/1e6 + cacheRead*priceCacheRead/1e6 (the value
\* of that expression in float64, or the float64 nearest to its real value).
C13_CostIncrease ==
  \A r \in RunIds :
    (runs[r].pc = "post" /\ runs[r].provEnded)
      => sessions[runs[r].session].Cost \in
           {FAdd(runs[r].costBefore, ClaimedCost(Model, runs[r].usage)),
            FAdd(runs[r].costBefore, NearestCost(Model, runs[r].usage))}

\* the summarization task t has left its work and only releases its context
\* and its registry entry
SumEnding(t) == sums[t].pc \in {"cancel", "delete", "done"}

\* C14: a summarization task whose listing finds no message of the session
\* publishes the error "no messages to summarize" (done) and ends: it creates
\* no message and changes no session, it publishes nothing afterwards, and
\* the summary marker of a session without messages is unset.
C14_NothingToSummarize ==
  /\ [][\A t \in SumIds :
          (/\ sums[t].pc = "list" /\ sums'[t].pc # "list"
           /\ Len(List(sums[t].session)) = 0
           /\ Len(sums'[t].pub) > 0
           /\ sums'[t].pub[Len(sums'[t].pub)].err # <<"failed to list messages", StoreError>>)
          => /\ sums'[t].pub = sums[t].pub \o
                   <<Progress("Starting summarization..."),
                     SumError(<<"no messages to summarize">>)>>
             /\ sums'[t].pc = "cancel"
             /\ msgs' = msgs
             /\ sessions' = sessions]_vars
  /\ [][\A t \in SumIds :
          SumEnding(t) => /\ SumEnding(t)'
                          /\ sums'[t].pub = sums[t].pub
                          /\ sums'[t].pc # sums[t].pc => msgs' = msgs /\ sessions' = sessions]_vars
  /\ [](\A s \in Sessions : Len(List(s)) = 0 => sessions[s].SummaryMessageID = 0)

C14_Witness ==
  \E t \in SumIds :
    /\ sums[t].pc = "done"
    /\ sums[t].pub = <<Progress("Starting summarization..."),
                       SumError(<<"no messages to summarize">>)>>
    /\ Len(List(sums[t].session)) = 0
    /\ sessions[sums[t].session].SummaryMessageID = 0

\* C15: the step that saves the session of a successful summarization leaves
\* the session with the summary marker set to the message the task created
\* (an assistant message finished with end-turn), prompt tokens 0, completion
\* tokens equal to the output tokens of the response, and the cost it had
\* before the step increased by the cost of the response usage.
C15_SummarizedSession ==
  [][\A t \in SumIds :
       (/\ sums[t].pc = "save"
        /\ sums'[t].pub = Append(sums[t].pub, SumComplete(sums[t].session)))
       => LET s == sums[t].session
              id == sessions'[s].SummaryMessageID
          IN /\ id = sums[t].msgId
             /\ id \in 1..Len(msgs)
             /\ msgs[id].sid = s
             /\ msgs[id].role = Assistant
             /\ msgs[id].finish = FinishReasonEndTurn
             /\ sessions'[s].PromptTokens = 0
             /\ sessions'[s].CompletionTokens = sums[t].usage.OutputTokens
             /\ \E fused \in BOOLEAN :
                  sessions'[s].Cost = FAdd(sessions[s].Cost, CostOf(Model, sums[t].usage, fused))]_vars

\* the ids of the transcript run r sent to the backend in its latest round
SentIds(r) == [i \in 1..Len(runs[r].sent) |-> runs[r].sent[i].id]

\* the transcript sent by run r starts at message id, labelled user, and
\* every other message of it was stored after message id
StartsAt(r, id) ==
  /\ runs[r].sent[1] = [id |-> id, role |-> User]
  /\ \A i \in 2..Len(runs[r].sent) : runs[r].sent[i].id > id

RunView(r) == [runs[r] EXCEPT !.title = "", !.titleSession = NewSession]

\* C17: the title task is separate from the Run that starts it. A step of the
\* task (also a failing or panicking one) changes nothing of the run, of the
\* messages, of the registry or of the contexts, so the terminal event of the
\* run is computed from the same state as without the task; and in every
\* state of the task (pending, failed, panicked, finished) an execution unit
\* that has not ended can take its next step.
C17_TitleDetached ==
  /\ [][\A r \in RunIds :
          (runs[r].title # "" /\ runs'[r].title # runs[r].title)
            => /\ RunView(r)' = RunView(r)
               /\ UNCHANGED <<activeRequests, ctxDone, msgs, sums,
                              eventsLeft, callsLeft, faultsLeft, opsLeft, cancelInvocations>>]_vars
  /\ [](\A r \in RunIds :
          (runs[r].title # "" /\ (UnitActive(r) \/ Returned(r)) /\ ~UnitEnded(r))
            => ENABLED UnitStep(r))

C17_Witness ==
  \E r \in RunIds :
    /\ runs[r].title = "send"
    /\ runs[r].pc = "done"
    /\ runs[r].closed
    /\ runs[r].delivered = <<runs[r].result>>
    /\ runs[r].result.type = AgentEventTypeResponse

\* C18: an Update call made while any registry entry exists returns an error
\* and leaves the provider unchanged; and the provider is never replaced
\* while the execution unit of a run is in progress.
C18_NoUpdateWhileBusy ==
  /\ [][\A u \in UpdateIds :
          (updates[u].pc = "free" /\ updates'[u].pc # "free" /\ IsBusy)
            => /\ updates'[u].pc = "rejected"
               /\ updates'[u].returned # ""
               /\ provider' = provider]_vars
  /\ [][provider' # provider => \A r \in RunIds : ~UnitActive(r)]_vars

\* the summarization task t has been started and has not returned
SumActive(t) == sums[t].pc \in {"list", "send", "get", "create", "save", "cancel", "delete"}

\* C19: a Summarize(s) call made while a summarization task of s is
\* registered under the summarize key starts no task, and at any instant at
\* most one summarization task per session is active.
C19_OneSummarizePerSession ==
  /\ [][\A t \in SumIds, s \in Sessions :
          (/\ sums[t].pc = "free" /\ sums'[t].pc # "free" /\ sums'[t].session = s
           /\ activeRequests[SummarizeKey(s)] # NoHandle)
          => ~SumActive(t)']_vars
  /\ [](\A s \in Sessions :
          Cardinality({t \in SumIds : sums[t].session = s /\ SumActive(t)}) <= 1)

\* C20: a Run whose registered handle a Cancel call has found and invoked
\* eventually publishes its terminal event, delivers it and closes its stream.
C20_CancelledRunEnds ==
  \A r \in RunIds :
    (runs[r].cancelPc # "") ~> (runs[r].pub # <<>> /\ runs[r].delivered # <<>> /\ runs[r].closed)

\* C21: when the dispatch loop reaches call i of a round with the context of
\* the run cancelled, that step ends the loop: call i and every later call
\* have the cancelled error result, the results of the calls before i are the
\* ones recorded for them, and no call is resolved or executed by the step;
\* in the round so ended only calls before i were resolved or executed.
C21_CancelledAtCall ==
  /\ [][\A r \in RunIds :
          (runs[r].pc = "dispatch" /\ CtxDone(r) /\ runs'[r] # runs[r])
            => LET i == runs[r].idx
                   calls == runs[r].asst.calls
               IN /\ runs'[r].pc = "out"
                  /\ Len(runs'[r].results) = Len(calls)
                  /\ \A j \in i..Len(calls) :
                       runs'[r].results[j] = CanceledResult(calls[j].id)
                  /\ \A j \in 1..(i - 1) : runs'[r].results[j] = runs[r].recorded[j]
                  /\ runs'[r].resolved = runs[r].resolved
                  /\ runs'[r].executed = runs[r].executed]_vars
  /\ [](\A r \in RunIds :
          (runs[r].pc = "out" /\ runs[r].cancelSeen = "dispatch")
            => /\ \A n \in 1..Len(runs[r].resolved) : runs[r].resolved[n] < runs[r].idx
               /\ \A n \in 1..Len(runs[r].executed) : runs[r].executed[n] < runs[r].idx)

C21_Witness ==
  \E r \in RunIds :
    /\ runs[r].pc = "out"
    /\ runs[r].cancelSeen = "dispatch"
    /\ Len(runs[r].results) = 3
    /\ runs[r].idx = 2
    /\ runs[r].executed = <<1>>
    /\ runs[r].results[1] = ToolResponse(runs[r].asst.calls[1].id, "ok")
    /\ runs[r].results[3] = CanceledResult(runs[r].asst.calls[3].id)

\* C22: a call whose tool returned an error other than permission-denied has
\* a result of its own that is marked as an error, and the dispatch loop
\* goes on with the call after it.
C22_FailureFolded ==
  /\ [](\A r \in RunIds : \A i \in runs[r].failed :
          /\ runs[r].recorded[i].id = runs[r].asst.calls[i].id
          /\ runs[r].recorded[i].isError)
  /\ [][\A r \in RunIds : \A i \in runs'[r].failed \ runs[r].failed :
          /\ runs'[r].idx = i + 1
          /\ runs'[r].pc = IF i < Len(runs[r].asst.calls) THEN "dispatch" ELSE "out"]_vars

\* C23: the step that ends a round without an error: when the finish reason
\* of the assistant message is tool-use and a tool-result message was
\* created, the assistant message and then the tool-result message are
\* appended to the history and the loop goes on; otherwise the run returns a
\* response event with done = true for the assistant message of the round.
C23_AfterRound ==
  [][\A r \in RunIds :
       (runs[r].pc = "out" /\ runs'[r].pc # "out" /\ runs'[r].result.type # AgentEventTypeError)
         => LET produced == Len(msgs') = Len(msgs) + 1 /\ msgs'[Len(msgs')].role = Tool
            IN IF runs[r].asst.finish = FinishReasonToolUse /\ produced
                 THEN /\ runs'[r].pc = "loop"
                      /\ runs'[r].result = NoEvent
                      /\ runs'[r].history = runs[r].history \o
                            <<[id |-> runs[r].asstId, role |-> Assistant],
                              [id |-> Len(msgs'), role |-> Tool]>>
                      /\ msgs'[Len(msgs')].sid = runs[r].session
                      /\ msgs'[Len(msgs')].results = runs[r].results
                 ELSE /\ runs'[r].pc = "delete"
                      /\ runs'[r].history = runs[r].history
                      /\ runs'[r].result.type = AgentEventTypeResponse
                      /\ runs'[r].result.done
                      /\ runs'[r].result.msgId = runs[r].asstId
                      /\ runs'[r].result.finish = runs[r].asst.finish]_vars

C23_Witness ==
  \E r \in RunIds :
    /\ runs[r].streams = 2
    /\ runs[r].pc = "delete"
    /\ runs[r].result.type = AgentEventTypeResponse
    /\ Len(runs[r].sent) = 3
    /\ runs[r].sent[2].role = Assistant
    /\ runs[r].sent[3].role = Tool
    /\ runs[r].result.msgId = runs[r].sent[3].id + 1

\* run r has returned the error of a failed stream: a stream error event or
\* a store failure met while an event was applied or the usage accounted
AbortedByStream(r) ==
  /\ runs[r].result.type = AgentEventTypeError
  /\ Len(runs[r].result.err) >= 2
  /\ runs[r].result.err[1] = "failed to process events"
  /\ runs[r].result.err[2] \notin {"failed to create assistant message",
                                    "failed to create cancelled tool message"}

\* C24: a stream error event, or a store failure while an event is applied
\* or the usage is accounted, received by a run that is not cancelled makes
\* the run return the error "failed to process events: ..." (not
\* RequestCancelled) with no tool call of the round executed; from then on
\* the run starts no round and executes no call, and the events it publishes
\* and delivers are that one error event.
C24_StreamFailureAborts ==
  /\ [][\A r \in RunIds :
          (/\ runs[r].pc = "recv" /\ ~CtxDone(r)
           /\ eventsLeft' < eventsLeft /\ runs'[r] # runs[r]
           /\ (runs'[r].event = EventError \/ faultsLeft' < faultsLeft))
          => /\ runs'[r].pc = "delete"
             /\ AbortedByStream(r)'
             /\ ~ErrorsIs(runs'[r].result.err, ErrRequestCancelled)
             /\ ~ErrorsIs(runs'[r].result.err, ContextCanceled)
             /\ runs'[r].executed = <<>>]_vars
  /\ [][\A r \in RunIds :
          AbortedByStream(r)
            => /\ runs'[r].result = runs[r].result
               /\ runs'[r].streams = runs[r].streams
               /\ runs'[r].executed = <<>>
               /\ Returned(r)']_vars
  /\ [](\A r \in RunIds :
          AbortedByStream(r)
            => /\ runs[r].pub \in {<<>>, <<runs[r].result>>}
               /\ runs[r].delivered \in {<<>>, <<runs[r].result>>}
               /\ runs[r].pc = "done" => /\ runs[r].pub = <<runs[r].result>>
                                         /\ runs[r].delivered = <<runs[r].result>>
                                         /\ runs[r].closed)

C24_Witness ==
  \E r \in RunIds :
    /\ AbortedByStream(r)
    /\ runs[r].result.err = <<"failed to process events", "failed to save session", StoreError>>
    /\ runs[r].pc = "done"
    /\ runs[r].asst.calls # <<>>
    /\ runs[r].pub = <<runs[r].result>>

\* C25: once a stored message carries a finish reason, no step changes it,
\* and the run that holds the message keeps the same finish reason for it.
C25_FinishSetOnce ==
  [][/\ \A id \in 1..Len(msgs) :
          msgs[id].finish # NoFinish => msgs'[id].finish = msgs[id].finish
     /\ \A r \in RunIds :
          (runs[r].asst.finish # NoFinish /\ runs'[r].asstId = runs[r].asstId)
            => runs'[r].asst.finish = runs[r].asst.finish]_vars

\* C26: no two read-modify-write updates of a session overlap: the copy a
\* writer saves (the title task its copy with the title, a summarization
\* task its copy with the marker, the tokens and the cost) was read from the
\* session as it is stored at the save, so no save undoes another writer's
\* update.
C26_NoStaleSave ==
  [][/\ \A r \in RunIds :
          (runs[r].title = "save" /\ runs'[r].title = "done")
            => runs[r].titleSession = sessions[runs[r].session]
     /\ \A t \in SumIds :
          (sums[t].pc = "save" /\ sessions' # sessions)
            => sums[t].oldSession = sessions[sums[t].session]]_vars

\* C27: an error event published by a summarization task has done = true
\* and is the last event the task publishes (no "Summary complete" follows
\* it), and a task publishes at most one event with done = true.
C27_ErrorEndsSummarize ==
  \A t \in SumIds :
    LET pub == sums[t].pub IN
    /\ \A i \in 1..Len(pub) :
         pub[i].type = AgentEventTypeError => pub[i].done /\ i = Len(pub)
    /\ Cardinality({i \in 1..Len(pub) : pub[i].done}) <= 1

\* C28 as stated: the number of TrackUsage calls of a run equals the number
\* of complete events the run has received.
C28_AccountedPerComplete ==
  \A r \in RunIds : runs[r].accounted = runs[r].completes

\* C28 amended: TrackUsage is called exactly once for each complete event
\* that the run receives with its context not cancelled and whose message
\* update succeeds, and at no other point of the run; a complete event
\* received after the cancellation, or whose message update fails, is not
\* accounted, so the calls never exceed the complete events received.
C28_AccountedWhenApplied ==
  /\ [][\A r \in RunIds :
          LET received == /\ runs[r].pc = "recv"
                          /\ runs'[r].completes = runs[r].completes + 1
              applied == /\ received
                         /\ ~CtxDone(r)
                         /\ ~ErrorsIs(runs'[r].result.err, "failed to update message")
          IN /\ runs'[r].completes # runs[r].completes
                  => received /\ runs'[r].event = EventComplete /\ eventsLeft' < eventsLeft
             /\ runs'[r].accounted = runs[r].accounted + (IF applied THEN 1 ELSE 0)]_vars
  /\ [](\A r \in RunIds : runs[r].accounted <= runs[r].completes)

C28_Witness ==
  \E r \in RunIds :
    /\ runs[r].completes = 2
    /\ runs[r].accounted = 2
    /\ runs[r].streams = 2
    /\ runs[r].pc = "done"

\* the message that results from applying the events evs, in order, to m
RECURSIVE ApplyAll(_, _)
ApplyAll(m, evs) ==
  IF evs = <<>> THEN m
  ELSE ApplyEvent(ApplyAll(m, SubSeq(evs, 1, Len(evs) - 1)), evs[Len(evs)])

\* C29: while a run receives the events of a stream, the assistant message
\* of the round as it is stored, and as the run holds it, is the new
\* assistant message with the events applied so far applied to it in the
\* order of their arrival; each event extends the applied events by itself.
C29_StoredAfterEachEvent ==
  /\ [](\A r \in RunIds :
          runs[r].pc \in {"recv", "post"}
            => LET m == ApplyAll(NewMessage(runs[r].session, Assistant), runs[r].events)
               IN /\ msgs[runs[r].asstId] = m
                  /\ runs[r].asst = m)
  /\ [][\A r \in RunIds :
          (runs[r].pc = "recv" /\ runs'[r].pc = "post")
            => /\ Len(runs'[r].events) = Len(runs[r].events) + 1
               /\ SubSeq(runs'[r].events, 1, Len(runs[r].events)) = runs[r].events
               /\ runs'[r].events[Len(runs'[r].events)].type = runs'[r].event]_vars

C29_Witness ==
  \E r \in RunIds :
    /\ runs[r].pc = "post"
    /\ Len(runs[r].events) = 2
    /\ runs[r].events[1].type = EventToolUseStart
    /\ runs[r].events[2].type = EventToolUseStop
    /\ msgs[runs[r].asstId].calls = <<[id |-> 1, name |-> "view", finished |-> TRUE]>>


\* the messages of the transcript run r sent to the backend in its latest
\* round, each with the directives its text was wrapped in and the number of
\* its binary attachment parts
Transcript(r) ==
  [i \in 1..Len(runs[r].sent) |->
     [id |-> runs[r].sent[i].id, role |-> runs[r].sent[i].role,
      directives |-> IF i = runs[r].enhanced.index THEN runs[r].enhanced.prompt ELSE "",
      attachments |-> IF i = runs[r].enhanced.index
                        THEN runs[r].enhanced.attachments
                        ELSE msgs[runs[r].sent[i].id].attachments]]

\* C30: when prompt augmentation fails or exceeds its time budget, the run is
\* not aborted: it goes on to its conversation loop, and every transcript it
\* sends to the backend holds the new user message as it was created, wrapped
\* in no directives. (ProcessRequest has no failing path; the case that occurs
\* is the deadline of its context passing before it returns.)
C30_AugmentFailureKeepsMessage ==
  /\ [][\A r \in RunIds :
          (runs[r].pc = "augment" /\ runs'[r].pc # "augment" /\ runs'[r].expired)
            => runs'[r].pc = "loop"]_vars
  /\ [](\A r \in RunIds :
          (runs[r].expired /\ runs[r].sent # <<>>)
            => \A i \in 1..Len(runs[r].sent) : Transcript(r)[i].directives = "")

\* the set of the elements of a sequence
Range(seq) == {seq[n] : n \in 1..Len(seq)}

\* C31: within one dispatch round the tool calls are executed one after the
\* other in the order the assistant message announced them: a call is executed
\* only when every call announced before it is resolved (its result recorded),
\* and no call is executed more than once.
C31_SequentialDispatch ==
  /\ [][\A r \in RunIds : \A j \in 1..LoopCalls :
          runs'[r].executed = Append(runs[r].executed, j)
            => /\ j \notin Range(runs[r].executed)
               /\ \A i \in 1..(j - 1) :
                    /\ i \in Range(runs[r].resolved)
                    /\ runs[r].recorded[i].id = runs[r].asst.calls[i].id]_vars
  /\ [](\A r \in RunIds : \A m, n \in 1..Len(runs[r].executed) :
          m < n => runs[r].executed[m] < runs[r].executed[n])

\* a round of three announced calls, all of them executed and recorded
C31_Witness ==
  \E r \in RunIds :
    /\ runs[r].pc = "out"
    /\ Len(runs[r].asst.calls) = 3
    /\ runs[r].executed = <<1, 2, 3>>
    /\ \A i \in 1..3 : runs[r].recorded[i].content = "ok"

\* C32: when the accountant has run for a stream-complete event and returned
\* without an error, the stored session has completion tokens = output +
\* cache-read tokens of that event and prompt tokens = input + cache-write
\* tokens of that event: the previous counters are replaced, not added to.
C32_TokenCountersReplaced ==
  [][\A r \in RunIds :
       (runs'[r].accounted = runs[r].accounted + 1 /\ runs'[r].pc = "post")
         => LET u == runs'[r].events[Len(runs'[r].events)].usage
                sess == sessions'[runs[r].session]
            IN  /\ u \in Usages
                /\ sess.CompletionTokens = u.OutputTokens + u.CacheReadTokens
                /\ sess.PromptTokens = u.InputTokens + u.CacheCreationTokens]_vars

\* the accountant has run in the second round of a run, for a response whose
\* usage differs from that of the first round; the counters are those of the
\* second response
C32_Witness ==
  \E r \in RunIds :
    /\ runs[r].pc = "post"
    /\ runs[r].streams = 2
    /\ runs[r].accounted = 2
    /\ runs[r].costBefore # FZero
    /\ runs[r].usage.InputTokens = 7
    /\ sessions[runs[r].session].PromptTokens = 10
    /\ sessions[runs[r].session].CompletionTokens = 7

\* C33: a dispatch round that ends without a store failure produces a
\* tool-result message if and only if the assistant message has at least one
\* tool call; a round never produces more than one message, and the message
\* produced is a tool-role message of the session whose parts are the results
\* of all the calls of the round, in call order.
C33_OneToolMessagePerRound ==
  [][\A r \in RunIds :
       (runs[r].pc = "out" /\ runs'[r].pc # "out")
         => LET calls == runs[r].asst.calls
                stored == runs'[r].pc = "loop" \/ runs'[r].result.type = AgentEventTypeResponse
            IN  /\ Len(msgs') \in {Len(msgs), Len(msgs) + 1}
                /\ SubSeq(msgs', 1, Len(msgs)) = msgs
                /\ Len(calls) = 0 => msgs' = msgs
                /\ (Len(calls) # 0 /\ stored) => Len(msgs') = Len(msgs) + 1
                /\ Len(msgs') = Len(msgs) + 1
                     => LET m == msgs'[Len(msgs')] IN
                        /\ Len(calls) # 0
                        /\ m.role = Tool
                        /\ m.sid = runs[r].session
                        /\ Len(m.results) = Len(calls)
                        /\ \A i \in 1..Len(calls) :
                             /\ m.results[i].id = calls[i].id
                             /\ m.results[i] = runs[r].results[i]]_vars

\* a round of two calls has ended: its tool message holds the result of the
\* first call, which ran, and that of the second, which was not found
C33_Witness ==
  \E r \in RunIds :
    /\ runs[r].pc \in {"loop", "delete"}
    /\ Len(runs[r].asst.calls) = 2
    /\ Len(msgs) = runs[r].asstId + 1
    /\ msgs[Len(msgs)].role = Tool
    /\ Len(msgs[Len(msgs)].results) = 2
    /\ msgs[Len(msgs)].results[1].content = "ok"
    /\ msgs[Len(msgs)].results[2].isError

\* C34: the completion of a run removes only the registry entry the run
\* created: when the plain key of its session holds the handle of another
\* run (accepted after Cancel removed the entry of this one), the completion
\* leaves that handle registered, so the other run stays busy and cancellable.
C34_CompletionKeepsOtherEntry ==
  [][\A r, q \in RunIds :
       (/\ q # r
        /\ runs[r].pc = "delete" /\ runs'[r].pc = "cancel"
        /\ activeRequests[PlainKey(runs[r].session)] = RunHandle(q))
         => /\ activeRequests'[PlainKey(runs[r].session)] = RunHandle(q)
            /\ IsSessionBusy(runs[q].session)']_vars

\* C35: as long as the execution unit of a run on session s has not reached
\* its end (where it removes its entry and publishes its terminal event),
\* IsSessionBusy(s) is true, also after Cancel(s); a Run(s) call made meanwhile
\* is rejected, so two execution units of one session are never active at the
\* same time after any sequence of Run and Cancel calls.
C35_BusyUntilUnitEnds ==
  /\ [](\A r \in RunIds : UnitActive(r) => IsSessionBusy(runs[r].session))
  /\ [][\A r, q \in RunIds :
          (/\ q # r
           /\ runs[q].pc = "free" /\ runs'[q].pc # "free"
           /\ runs'[q].session = runs[r].session
           /\ UnitActive(r))
            => runs'[q].pc = "rejected"]_vars

\* C36: when a Run has published its terminal event, every assistant message
\* of its session carries a finish reason, and a response event never carries
\* an assistant message without one, also when the stream of the backend
\* ended without a complete event.
C36_FinishedAtTerminalEvent ==
  \A r \in RunIds :
    runs[r].pub # <<>>
      => /\ \A id \in 1..Len(msgs) :
              (msgs[id].sid = runs[r].session /\ msgs[id].role = Assistant)
                => msgs[id].finish # NoFinish
         /\ runs[r].result.type = AgentEventTypeResponse
              => /\ runs[r].result.finish # NoFinish
                 /\ runs[r].asst.finish # NoFinish

\* C37: directive injection keeps the attachments of the user turn: in a
\* transcript sent after an injection the rewritten user message still has
\* every binary attachment part of the user message that Run created, the
\* stored user message is as it was created, and every other entry of the
\* transcript is sent as it is stored.
C37_InjectionKeepsAttachments ==
  \A r \in RunIds :
    (runs[r].sent # <<>> /\ runs[r].enhanced.index # 0)
      => LET k == runs[r].enhanced.index
             sent == Transcript(r)
         IN  /\ sent[k].role = User
             /\ sent[k].attachments = runs[r].attachments
             /\ msgs[sent[k].id] = CreateUserMessage(runs[r].session, runs[r].attachments)
             /\ \A i \in 1..Len(sent) :
                  i # k => /\ sent[i].directives = ""
                           /\ sent[i].attachments = msgs[sent[i].id].attachments

\* C38: the shared performance-tracking state of the framework is never
\* written by two execution units at once: Runs on different sessions are never
\* inside RecordProcessing together, writing the metrics map of the tracker,
\* and none of them reads the global metrics of the monitor while a Run on
\* another session writes them.
C38_TrackingExclusive ==
  /\ [](\A r, q \in tracker.writers : runs[r].session # runs[q].session => r = q)
  /\ [][\A r \in RunIds :
          (runs[r].pc = "report" /\ runs'[r].pc = "tracked")
            => \/ monitor.mutex = 0
               \/ runs[monitor.mutex].session = runs[r].session]_vars

\* the sum of f over the set S
RECURSIVE SumOver(_, _)
SumOver(f, S) ==
  IF S = {} THEN 0 ELSE LET x == CHOOSE x \in S : TRUE IN f[x] + SumOver(f, S \ {x})

\* C40: from an empty monitor, after any sequence of RecordRequest calls,
\* TotalRequests is the sum of RequestCount over the sessions and the sum of the
\* global EnhancementUsage counts, TotalSessions is the number of distinct
\* sessions recorded, and the RequestCount of each session is the length of
\* its QualityScores.
C40_MonitorCounters ==
  LET recorded == DOMAIN monitor.sessions
      global == monitor.globalMetrics
  IN  /\ global.TotalRequests
           = SumOver([s \in recorded |-> monitor.sessions[s].RequestCount], recorded)
      /\ global.TotalRequests = SumOver(global.EnhancementUsage, Enhancements)
      /\ global.TotalSessions = Cardinality(recorded)
      /\ \A s \in recorded :
           /\ monitor.sessions[s].RequestCount = Len(monitor.sessions[s].QualityScores)
           /\ monitor.sessions[s].RequestCount
                = SumOver(monitor.sessions[s].EnhancementUsage, Enhancements)

\* two requests of one session with different enhancements have been recorded
C40_Witness ==
  /\ monitor.globalMetrics.TotalRequests = 2
  /\ monitor.globalMetrics.TotalSessions = 1
  /\ \E s \in DOMAIN monitor.sessions :
       monitor.sessions[s].QualityScores = <<"ReflexionEnhancement", "StandardProcessing">>

\* C39: ClassifyProblem is deterministic: all calls with the same content
\* return the same problem type, also when several problem types match the
\* same highest number of keywords.
C39_ClassifyDeterministic ==
  \A i, j \in 1..Len(classify.results) : classify.results[i] = classify.results[j]

====
